---- MODULE Spec2Model ----
(***************************************************************************)
(* Verification model of seekarr's acquisition pipeline.                   *)
(*                                                                         *)
(* Part 1: Processor.monitorDownloads, the transfer-monitoring loop.       *)
(* One action per step of the loop: the cancellation check at the top of   *)
(* a tick, the body of the inner loop for one item (the listing fetch, the *)
(* directory lookup, the classification, the cancel and re-enqueue calls   *)
(* and the bookkeeping), and the end-of-tick exit checks with the sleep.   *)
(*                                                                         *)
(* Strings whose characters the code inspects (transfer states, paths) are *)
(* sequences: a transfer state is a sequence of characters, a path is a    *)
(* sequence of segments and separators.                                    *)
(***************************************************************************)
EXTENDS Integers, Sequences, FiniteSets, TLC

(***************************************************************************)
(* Bounds and configuration                                                *)
(***************************************************************************)
\* Largest download list handed to monitorDownloads.
MaxItems == 2

\* cfg.Slskd.StalledTimeout, in seconds.
StalledTimeout == 3

\* cfg.Timing.DownloadPollSeconds, in seconds.
PollInterval == 1

\* maxRetries := 3
maxRetriesOff == 3 + 1
maxRetries == 3

(***************************************************************************)
(* Transfer state strings (slskd "Phase, Status")                          *)
(***************************************************************************)
Completed == <<"C","o","m","p","l","e","t","e","d">>
CommaSp == <<",", " ">>
StSucceeded == Completed \o CommaSp \o <<"S","u","c","c","e","e","d","e","d">>
StCancelled == Completed \o CommaSp \o <<"C","a","n","c","e","l","l","e","d">>
StTimedOut == Completed \o CommaSp \o <<"T","i","m","e","d","O","u","t">>
StErrored == Completed \o CommaSp \o <<"E","r","r","o","r","e","d">>
StRejected == Completed \o CommaSp \o <<"R","e","j","e","c","t","e","d">>
StDownloading == <<"I","n","P","r","o","g","r","e","s","s">> \o CommaSp
                     \o <<"D","o","w","n","l","o","a","d","i","n","g">>
StQueued == <<"Q","u","e","u","e","d">> \o CommaSp \o <<"N","o","n","e">>
StRequested == <<"R","e","q","u","e","s","t","e","d">>

\* errorStates of DownloadFile.IsErrored
errorStates == <<StCancelled, StTimedOut, StErrored, StRejected>>

\* DownloadFile.IsCompleted
IsCompletedExactly(d) == d.State = Completed \o CommaSp \o <<"S","u","c","c","e","e","d","e","d">>
IsCompleted(d) ==
    /\ d.State # <<>>
    /\ Len(d.State) >= 9
    /\ SubSeq(d.State, 1, 9) = Completed

\* DownloadFile.IsErrored
IsErrored(d) == \E i \in 1..Len(errorStates) : d.State = errorStates[i]

\* DownloadFile.IsInProgress
IsInProgress(d) == ~IsCompleted(d)

(***************************************************************************)
(* Paths                                                                   *)
(***************************************************************************)
\* strings.ReplaceAll(p, "\\", "/")
NormalizeSlashes(p) == [i \in 1..Len(p) |-> IF p[i] = "\\" THEN "/" ELSE p[i]]

\* The same path spelled the way slskd reports it, with backslashes.
Backslashed(p) == [i \in 1..Len(p) |-> IF p[i] = "/" THEN "\\" ELSE p[i]]

LastSlash(p) ==
    LET S == {i \in 1..Len(p) : p[i] = "/"}
    IN  IF S = {} THEN 0 ELSE CHOOSE i \in S : \A j \in S : j <= i

\* filepath.Dir on a slash-separated path. The paths of the model are clean
\* (no ".", "..", doubled or trailing separators), where Clean changes nothing.
FilepathDir(p) ==
    IF LastSlash(p) = 0 THEN <<".">>
    ELSE IF LastSlash(p) = 1 THEN <<"/">>
    ELSE SubSeq(p, 1, LastSlash(p) - 1)

(***************************************************************************)
(* Items, files and listings the model draws from                          *)
(***************************************************************************)
MusicAlbum == <<"Music", "/", "Album">>
MusicOther == <<"Music", "/", "Other">>
MusicElse == <<"Music", "/", "Else">>

\* The download lists: the first n items of this catalog.
ItemCatalog ==
    << [AlbumID |-> 1, Username |-> "u1", Directory |-> MusicAlbum],
       [AlbumID |-> 2, Username |-> "u2", Directory |-> MusicAlbum],
       [AlbumID |-> 3, Username |-> "u1", Directory |-> MusicOther],
       [AlbumID |-> 4, Username |-> "u2", Directory |-> MusicOther] >>

TrackNames == <<"01.flac", "02.flac", "03.flac">>

\* The error and in-progress state strings file k is reported with.
ErrStateOf(k) == errorStates[((k - 1) % Len(errorStates)) + 1]
RunStateOf(k) == <<StDownloading, StQueued, StRequested, <<>>>>[((k - 1) % 4) + 1]

\* What a listing can say about file k of a directory: completed, errored,
\* in progress; the first file may also be errored under a path outside it.
FileReportsAt(k) == IF k = 1 THEN {"ok", "err", "stray", "run"} ELSE {"ok", "err", "run"}

\* The transfer record of file k of directory dir under report r. A "stray"
\* record is an errored one whose path lies outside the directory.
DownloadFile(dir, k, r) ==
    [ ID |-> k,
      Filename |-> Backslashed(IF r = "stray" THEN MusicElse ELSE dir)
                       \o <<"\\", TrackNames[k]>>,
      State |-> CASE r = "ok" -> StSucceeded
                  [] r = "err" -> ErrStateOf(k)
                  [] r = "stray" -> ErrStateOf(k)
                  [] OTHER -> RunStateOf(k),
      Size |-> 1000 + k ]

\* What a listing says about a directory: the reports of its first n files.
FileReportLists ==
    UNION { {fl \in [1..n -> {"ok", "err", "stray", "run"}] :
                \A k \in 1..n : fl[k] \in FileReportsAt(k)} : n \in 0..Len(TrackNames) }

\* Entries of other peers and directories that precede the item's entry.
DecoyUser(item) ==
    [ Username |-> "zz",
      Directories |-> << [Directory |-> Backslashed(item.Directory),
                          Files |-> <<DownloadFile(item.Directory, 1, "err")>>] >> ]
DecoyDir(item) ==
    [ Directory |-> Backslashed(MusicElse),
      Files |-> <<DownloadFile(MusicElse, 2, "err")>> ]

\* What GetDownloads can report while an item is polled: nothing at all, only
\* another peer, the item's peer without the item's directory, or the item's
\* directory with some files (after the entries of the other peer and of
\* another directory).
Reports ==
    { [shape |-> sh, files |-> <<>>] : sh \in {"empty", "otherUser", "otherDir"} }
    \cup { [shape |-> "entry", files |-> fl] : fl \in FileReportLists }

\* The DownloadsResponse that carries a report about item.
ListingOf(item, rep) ==
    CASE rep.shape = "empty" -> <<>>
      [] rep.shape = "otherUser" -> <<DecoyUser(item)>>
      [] rep.shape = "otherDir" ->
            << DecoyUser(item),
               [Username |-> item.Username, Directories |-> <<DecoyDir(item)>>] >>
      [] OTHER ->
            << DecoyUser(item),
               [ Username |-> item.Username,
                 Directories |->
                    << DecoyDir(item),
                       [ Directory |-> Backslashed(item.Directory),
                         Files |-> [k \in 1..Len(rep.files) |->
                                      DownloadFile(item.Directory, k, rep.files[k])] ] >> ] >>

(***************************************************************************)
(* State                                                                   *)
(***************************************************************************)
VARIABLES
    downloadList,   \* the argument of monitorDownloads
    pc,             \* "tick" | "items" | "polled" | "done"
    idx,            \* index of the inner loop (1-based)
    pending,        \* pending[i]
    succeeded,      \* succeeded[i]
    retryCount,     \* retryCount[i]
    unfinished,     \* the tick's counter of items still to be monitored
    elapsed,        \* time.Since(startTime), in seconds
    ctxDone,        \* the context has been cancelled
    result,         \* the returned list (indices of downloadList), once done
    err,            \* the returned error: "nil" | "ctx"
    last            \* what the latest step of the inner loop saw and requested

\* Processor.chooseRelease, called for the same album in two runs
VARIABLES
    crPc,           \* position in chooseRelease
    album,          \* the album passed in (its Releases)
    releases,       \* the local releases
    release,        \* what the call returned: an error or a release
    earlier         \* the releases and the return value of the earlier call

\* Processor.searchAndQueueDownloads and Processor.searchForAlbum
VARIABLES
    sPc,            \* position in the two functions
    albums,         \* the albums passed to searchAndQueueDownloads
    ai,             \* index of the album the loop is at
    queuedList,     \* searchAndQueueDownloads' downloadList
    failedCount,
    denylist,       \* Denylist.entries: album id -> Failures
    chosen,         \* the release chooseRelease returned for the album
    tracks,         \* the tracks GetTracks returned for the album
    searchElapsed,  \* time.Since(startTime) in searchForAlbum, milliseconds
    searchState,    \* what the latest GetSearchState call returned
    results,        \* the search results
    ri,             \* index of the result (peer) the scan is at
    dirsLeft,       \* directories of the peer the range has not yet yielded
    found,          \* searchForAlbum's return values: found and
    newItem,        \* the item
    calls,          \* the EnqueueDownloads calls made for the current album
    fate            \* what became of each album of the list

\* LockFile instances on one path, and the file system under them
VARIABLES
    lfPc,           \* position of each instance in Acquire / Release
    lfFd,           \* the file each instance has open (f, then lf.file): an inode, 0 for none
    lfErr,          \* the error the latest Acquire or Release of each instance returned
    lockPath,       \* the inode the lock path names, 0 when the path does not exist
    flocks,         \* for each inode, the instance whose open file holds the flock, 0 for none
    inodesMade      \* the inodes that os.OpenFile created so far

\* A Denylist, its file, and Processor.Run around it
VARIABLES
    dnEntries,      \* Denylist.entries of the live object: album id -> Failures
    dnLoaded,       \* the entries the live object had when it was created
    dnHistory,      \* the RecordAttempt calls made on the live object
    dnFile,         \* the content of the denylist file, NoFile when it does not exist
    dnTemps,        \* the temporary files in the denylist's directory
    dnSaved,        \* how the latest Save ended and the entries it was given
    dnErr,          \* the error the latest NewDenylist or Load returned
    runPc,          \* position in Processor.Run
    runErr,         \* what Run returned
    runQueued       \* len(downloadList) after searchAndQueueDownloads

\* A PageTracker and its file
VARIABLES
    ptCurrent,      \* PageTracker.current of the live object
    ptFile,         \* the content of the page file, if it exists
    ptTemps,        \* the temporary files in the page file's directory
    ptErr,          \* the error the latest NewPageTracker or Load returned
    ptLast          \* the latest Next call: the page before it, totalPages, how it ended

\* The process: run, with runOnce or runDaemon, around Processor.Run
VARIABLES
    mMode,          \* cfg.Daemon.Enabled: "once" | "daemon"
    mPc,            \* position of the main goroutine
    mRun,           \* the latest goroutine that calls proc.Run: "none" | "inflight" | "returned"
    mActive,        \* the proc.Run calls in flight
    mToken,         \* the tokens in runDaemon's running channel
    mSkipped,       \* the scheduled runs runProcessor skipped
    mResult,        \* what the latest proc.Run returned
    mCtx,           \* whether cancel() was called
    mSig,           \* whether a termination signal is waiting in sigChan
    mRuns,          \* the proc.Run calls started so far
    mExit           \* the exit code run returned, -1 before it returns

\* One call of a function of the matcher or the filter
VARIABLES
    fnPc,           \* "call" before the call, "done" after it
    fnIn,           \* the arguments
    fnOut           \* the return value

\* Processor.Run after searchAndQueueDownloads: phases 3 to 5
VARIABLES
    phPc,           \* the phase Run is in
    phDisableSync,  \* cfg.Lidarr.DisableSync
    phCalls,        \* the calls of organizeDownloads and triggerImport made so far
    phErr           \* what Run returned

monitorVars == <<downloadList, pc, idx, pending, succeeded, retryCount,
                 unfinished, elapsed, ctxDone, result, err, last>>
releaseVars == <<crPc, album, releases, release, earlier>>
queueVars == <<sPc, albums, ai, queuedList, failedCount, denylist, chosen, tracks,
               searchElapsed, searchState, results, ri, dirsLeft, found, newItem, calls, fate>>

lockVars == <<lfPc, lfFd, lfErr, lockPath, flocks, inodesMade>>

denyVars == <<dnEntries, dnLoaded, dnHistory, dnFile, dnTemps, dnSaved, dnErr,
              runPc, runErr, runQueued>>

\* The variables of the parts around the pipeline.
pageVars == <<ptCurrent, ptFile, ptTemps, ptErr, ptLast>>
mainVars == <<mMode, mPc, mRun, mActive, mToken, mSkipped, mResult, mCtx, mSig,
              mRuns, mExit>>
callVars == <<fnPc, fnIn, fnOut>>
phaseVars == <<phPc, phDisableSync, phCalls, phErr>>
aroundVars == <<lockVars, denyVars, pageVars, mainVars, callVars, phaseVars>>

vars == <<monitorVars, releaseVars, queueVars, aroundVars>>

\* The variables of the other parts while one part runs.
outsideMonitor == <<releaseVars, queueVars, aroundVars>>
outsideRelease == <<monitorVars, queueVars, aroundVars>>
outsideQueue == <<monitorVars, releaseVars, aroundVars>>
pipelineVars == <<monitorVars, releaseVars, queueVars>>
outsideLock == <<pipelineVars, denyVars, pageVars, mainVars, callVars, phaseVars>>
outsideDeny == <<pipelineVars, lockVars, pageVars, mainVars, callVars, phaseVars>>
outsidePage == <<pipelineVars, lockVars, denyVars, mainVars, callVars, phaseVars>>
outsideMain == <<pipelineVars, lockVars, denyVars, pageVars, callVars, phaseVars>>
outsidePhase == <<releaseVars, queueVars, lockVars, denyVars, pageVars, mainVars,
                  callVars>>
outsideCall == <<pipelineVars, lockVars, denyVars, pageVars, mainVars, phaseVars>>

\* No LockFile instance exists.
LockIdle ==
    /\ lfPc = <<>>
    /\ lfFd = <<>>
    /\ lfErr = <<>>
    /\ lockPath = 0
    /\ flocks = <<>>
    /\ inodesMade = 0

NoFile == [exists |-> FALSE, data |-> <<>>]
NoSave == [outcome |-> "none", entries |-> <<>>]

\* No Denylist exists and Run is not running.
DenyIdle ==
    /\ dnEntries = <<>>
    /\ dnLoaded = <<>>
    /\ dnHistory = <<>>
    /\ dnFile = NoFile
    /\ dnTemps = 0
    /\ dnSaved = NoSave
    /\ dnErr = "none"
    /\ runPc = "idle"
    /\ runErr = "none"
    /\ runQueued = 0

NoNext == [before |-> 0, totalPages |-> 0, outcome |-> "none"]

\* No PageTracker exists.
PageIdle ==
    /\ ptErr = "none"
    /\ ptCurrent = 0
    /\ ptFile = NoFile
    /\ ptTemps = 0
    /\ ptLast = NoNext

\* The process has not started.
MainIdle ==
    /\ mMode = "none"
    /\ mPc = "idle"
    /\ mRun = "none"
    /\ mActive = 0
    /\ mToken = 0
    /\ mSkipped = 0
    /\ mResult = "none"
    /\ mCtx = FALSE
    /\ mSig = FALSE
    /\ mRuns = 0
    /\ mExit = 0 - 1

\* No function call is looked at.
CallIdle ==
    /\ fnPc = "idle"
    /\ fnIn = <<>>
    /\ fnOut = <<>>

\* The parts around the pipeline are not running.
\* Run is not in its later phases.
PhaseIdle ==
    /\ phPc = "idle"
    /\ phDisableSync = FALSE
    /\ phCalls = <<>>
    /\ phErr = "none"

AroundIdle == LockIdle /\ DenyIdle /\ PageIdle /\ MainIdle /\ CallIdle /\ PhaseIdle

NoState == [err |-> FALSE, State |-> <<>>]
NoItem == [ArtistName |-> <<>>, AlbumName |-> <<>>, AlbumID |-> 0,
           FolderName |-> <<>>, Username |-> <<>>, Directory |-> <<>>,
           Tracks |-> <<>>]

\* searchAndQueueDownloads is not running.
QueueIdle ==
    /\ sPc = "idle"
    /\ albums = <<>>
    /\ ai = 1
    /\ queuedList = <<>>
    /\ failedCount = 0
    /\ denylist = <<>>
    /\ chosen = [err |-> "none", value |-> [ID |-> 0, TrackCount |-> 0, Status |-> ""]]
    /\ tracks = <<>>
    /\ searchElapsed = 0
    /\ searchState = NoState
    /\ results = <<>>
    /\ ri = 1
    /\ dirsLeft = {}
    /\ found = FALSE
    /\ newItem = NoItem
    /\ calls = <<>>
    /\ fate = <<>>

NoRelease == [err |-> "none", value |-> [ID |-> 0, TrackCount |-> 0, Status |-> ""]]
NoCall == [releases |-> <<>>, release |-> NoRelease]

\* chooseRelease is not running.
ReleaseIdle ==
    /\ crPc = "idle"
    /\ album = [ID |-> 0, Releases |-> <<>>]
    /\ releases = <<>>
    /\ release = NoRelease
    /\ earlier = NoCall

Items == 1..Len(downloadList)

\* last.report is the report the step received; Downloads(last) is its listing.
NoReport == [shape |-> "empty", files |-> <<>>]
NoStep == [kind |-> "none", idx |-> 0, retries |-> 0, report |-> NoReport,
           cancels |-> <<>>, enqueues |-> <<>>, cancelOk |-> TRUE]

(***************************************************************************)
(* The body of the inner loop                                              *)
(***************************************************************************)
\* The "find matching directory" loops: within one user entry the first
\* directory that matches wins (break); a later entry of the same user with a
\* matching directory overwrites an earlier one.
RECURSIVE FindFrom(_, _, _, _)
FindFrom(downloads, item, u, acc) ==
    IF u > Len(downloads) THEN acc
    ELSE LET ud == downloads[u]
             M == {d \in 1..Len(ud.Directories) :
                     NormalizeSlashes(ud.Directories[d].Directory) = item.Directory}
             first == CHOOSE d \in M : \A e \in M : d <= e
         IN  FindFrom(downloads, item, u + 1,
                      IF ud.Username = item.Username /\ M # {}
                      THEN ud.Directories[first].Files
                      ELSE acc)

FindDirFiles(downloads, item) == FindFrom(downloads, item, 1, <<>>)

\* "Separate files into completed, in-progress, and errored"
IsErroredFile(f) == IsErrored(f)
IsCompletedFile(f) == ~IsErrored(f) /\ IsCompleted(f)
IsInProgressFile(f) == ~IsErrored(f) /\ ~IsCompleted(f)
erroredFiles(dirFiles) == SelectSeq(dirFiles, IsErroredFile)
completedFiles(dirFiles) == SelectSeq(dirFiles, IsCompletedFile)
inProgressFiles(dirFiles) == SelectSeq(dirFiles, IsInProgressFile)

\* "Cancel the errored files from slskd": one CancelDownload per errored file.
CancelCallsAll(item, dirFiles) ==
    [i \in 1..Len(dirFiles) |-> [Username |-> item.Username, ID |-> dirFiles[i].ID]]
CancelCalls(item, dirFiles) ==
    LET ef == erroredFiles(dirFiles)
    IN  [i \in 1..Len(ef) |-> [Username |-> item.Username, ID |-> ef[i].ID]]

\* "Re-enqueue the failed files": the errored files whose directory is the item's.
retryFilesUnfiltered(item, dirFiles) ==
    LET ef == erroredFiles(dirFiles)
    IN  [i \in 1..Len(ef) |-> [Filename |-> ef[i].Filename, Size |-> ef[i].Size]]
retryFiles(item, dirFiles) ==
    LET ef == erroredFiles(dirFiles)
        InDir(f) == FilepathDir(NormalizeSlashes(f.Filename)) = item.Directory
        kept == SelectSeq(ef, InDir)
    IN  [i \in 1..Len(kept) |-> [Filename |-> kept[i].Filename, Size |-> kept[i].Size]]

\* The EnqueueDownloads calls of one step: none, or one naming retryFiles.
EnqueueCalls(item, dirFiles, retries) ==
    IF /\ Len(erroredFiles(dirFiles)) > 0
       /\ retries < maxRetries
       /\ Len(retryFiles(item, dirFiles)) > 0
    THEN << [Username |-> item.Username, Files |-> retryFiles(item, dirFiles)] >>
    ELSE <<>>

\* The bookkeeping of one item for one listing: the item's new pending and
\* succeeded flags and retry counter, and whether unfinished is incremented.

\* len(dirFiles) == 0: pending[idx] = false; continue
DroppedOutcomeKeeps(retries) ==
    [pending |-> TRUE, succeeded |-> FALSE, retries |-> retries, unfinished |-> 1]
DroppedOutcome(retries) ==
    [pending |-> FALSE, succeeded |-> FALSE, retries |-> retries, unfinished |-> 0]

\* errored files, retryCount[idx] < maxRetries: retryCount[idx]++; unfinished++
RetryOutcome(retries) ==
    [pending |-> TRUE, succeeded |-> FALSE, retries |-> retries + 1, unfinished |-> 1]

\* errored files, retries exhausted: wait for the files in progress, else
\* finalize, succeeded if any file completed.
ExhaustedOutcomeGivesUp(dirFiles, retries) ==
    IF Len(inProgressFiles(dirFiles)) > 0
    THEN [pending |-> TRUE, succeeded |-> FALSE, retries |-> retries, unfinished |-> 1]
    ELSE [pending |-> FALSE, succeeded |-> FALSE, retries |-> retries, unfinished |-> 0]
ExhaustedOutcomeNoWait(dirFiles, retries) ==
    [pending |-> FALSE, succeeded |-> Len(completedFiles(dirFiles)) > 0,
     retries |-> retries, unfinished |-> 0]
ExhaustedOutcome(dirFiles, retries) ==
    IF Len(inProgressFiles(dirFiles)) > 0
    THEN [pending |-> TRUE, succeeded |-> FALSE, retries |-> retries, unfinished |-> 1]
    ELSE [pending |-> FALSE, succeeded |-> Len(completedFiles(dirFiles)) > 0,
          retries |-> retries, unfinished |-> 0]

\* no errored files: still downloading, or all complete
CleanOutcomeEager(dirFiles, retries) ==
    IF Len(completedFiles(dirFiles)) = 0
    THEN [pending |-> TRUE, succeeded |-> FALSE, retries |-> retries, unfinished |-> 1]
    ELSE [pending |-> FALSE, succeeded |-> TRUE, retries |-> retries, unfinished |-> 0]
CleanOutcome(dirFiles, retries) ==
    IF Len(inProgressFiles(dirFiles)) > 0
    THEN [pending |-> TRUE, succeeded |-> FALSE, retries |-> retries, unfinished |-> 1]
    ELSE [pending |-> FALSE, succeeded |-> TRUE, retries |-> retries, unfinished |-> 0]

Outcome(dirFiles, retries) ==
    IF Len(dirFiles) = 0 THEN DroppedOutcome(retries)
    ELSE IF Len(erroredFiles(dirFiles)) > 0 THEN
        IF retries < maxRetries THEN RetryOutcome(retries)
        ELSE ExhaustedOutcome(dirFiles, retries)
    ELSE CleanOutcome(dirFiles, retries)

\* unfinished after a failed GetDownloads: the code sleeps and continues
\* with the next item without counting this one.
UnfinishedAfterFetchError(u) == u

\* The directory files the lookup finds for each item of the catalog under
\* each report (the same computation, done once per input).
DirFilesOf ==
    [i \in 1..Len(ItemCatalog) |->
        [rep \in Reports |-> FindDirFiles(ListingOf(ItemCatalog[i], rep), ItemCatalog[i])]]

(***************************************************************************)
(* Actions                                                                 *)
(***************************************************************************)
Init ==
    /\ downloadList \in {SubSeq(ItemCatalog, 1, n) : n \in 0..MaxItems}
    /\ pc = IF downloadList = <<>> THEN "done" ELSE "tick"
    /\ idx = 1
    /\ pending = [i \in 1..Len(downloadList) |-> TRUE]
    /\ succeeded = [i \in 1..Len(downloadList) |-> FALSE]
    /\ retryCount = [i \in 1..Len(downloadList) |-> 0]
    /\ unfinished = 0
    /\ elapsed = 0
    /\ ctxDone = FALSE
    /\ result = <<>>
    /\ err = "nil"
    /\ last = NoStep
    /\ ReleaseIdle
    /\ QueueIdle
    /\ AroundIdle

\* The caller's context is cancelled. The loop reads the context only at the
\* top of a tick, so a cancellation takes effect there whenever it arrived.
Cancel ==
    /\ pc = "tick"
    /\ ~ctxDone
    /\ ctxDone' = TRUE
    /\ UNCHANGED <<downloadList, pc, idx, pending, succeeded, retryCount,
                   unfinished, elapsed, result, err, last>>
    /\ UNCHANGED outsideMonitor

\* A tick that starts without looking at the context.
TickStartUnchecked ==
    /\ pc = "tick"
    /\ pc' = "items"
    /\ idx' = 1
    /\ unfinished' = 0
    /\ last' = NoStep
    /\ UNCHANGED <<downloadList, pending, succeeded, retryCount, elapsed, ctxDone,
                   err, result>>
    /\ UNCHANGED outsideMonitor

\* select { case <-ctx.Done(): return nil, ctx.Err() default: }; unfinished := 0
TickStart ==
    /\ pc = "tick"
    /\ IF ctxDone
       THEN /\ pc' = "done"
            /\ err' = "ctx"
            /\ result' = <<>>
            /\ UNCHANGED <<idx, unfinished>>
       ELSE /\ pc' = "items"
            /\ idx' = 1
            /\ unfinished' = 0
            /\ UNCHANGED <<err, result>>
    /\ last' = NoStep
    /\ UNCHANGED <<downloadList, pending, succeeded, retryCount, elapsed, ctxDone>>
    /\ UNCHANGED outsideMonitor

\* if !pending[idx] { continue }
SkipItemRevives ==
    /\ pc = "items"
    /\ idx <= Len(downloadList)
    /\ ~pending[idx]
    /\ idx' = idx + 1
    /\ pending' = [pending EXCEPT ![idx] = TRUE]
    /\ last' = NoStep
    /\ UNCHANGED <<downloadList, pc, succeeded, retryCount, unfinished,
                   elapsed, ctxDone, result, err>>
    /\ UNCHANGED outsideMonitor
SkipItem ==
    /\ pc = "items"
    /\ idx <= Len(downloadList)
    /\ ~pending[idx]
    /\ idx' = idx + 1
    /\ last' = NoStep
    /\ UNCHANGED <<downloadList, pc, pending, succeeded, retryCount, unfinished,
                   elapsed, ctxDone, result, err>>
    /\ UNCHANGED outsideMonitor

\* The rest of the loop body for a pending item, up to the end of the body.
\* With record the body leaves the step in last; without, it leaves nothing
\* (where the requests and the listing are not looked at).
PollItemLeaving(record) ==
    /\ pc = "items"
    /\ idx <= Len(downloadList)
    /\ pending[idx]
    /\ LET item == downloadList[idx] IN
       \/ \* GetDownloads fails: warn, time.Sleep(pollInterval), continue
          /\ elapsed' = elapsed + PollInterval
          /\ unfinished' = UnfinishedAfterFetchError(unfinished)
          /\ last' = IF record
                      THEN [NoStep EXCEPT !.kind = "fetchError", !.idx = idx,
                                          !.retries = retryCount[idx]]
                      ELSE NoStep
          /\ UNCHANGED <<pending, succeeded, retryCount>>
       \/ \E rep \in Reports :
            LET dirFiles == DirFilesOf[item.AlbumID][rep]
                out == Outcome(dirFiles, retryCount[idx])
                cancels == CancelCalls(item, dirFiles)
                enqueues == EnqueueCalls(item, dirFiles, retryCount[idx])
            IN  \* a failed CancelDownload or EnqueueDownloads is only logged
                \E cancelOk \in (IF cancels = <<>> THEN {TRUE} ELSE BOOLEAN) :
                  /\ pending' = [pending EXCEPT ![idx] = out.pending]
                  /\ succeeded' = [succeeded EXCEPT ![idx] = out.succeeded]
                  /\ retryCount' = [retryCount EXCEPT ![idx] = out.retries]
                  /\ unfinished' = unfinished + out.unfinished
                  /\ last' = IF record
                              THEN [kind |-> "listing", idx |-> idx,
                                    retries |-> retryCount[idx], report |-> rep,
                                    cancels |-> cancels, enqueues |-> enqueues,
                                    cancelOk |-> cancelOk]
                              ELSE NoStep
                  /\ UNCHANGED elapsed
    /\ pc' = "polled"
    /\ UNCHANGED <<downloadList, idx, ctxDone, result, err>>
    /\ UNCHANGED outsideMonitor

PollItem == PollItemLeaving(TRUE)

\* The same loop body without the record of the step.
PollItemQuiet == PollItemLeaving(FALSE)

\* The inner loop moves on to the next index.
NextItem ==
    /\ pc = "polled"
    /\ pc' = "items"
    /\ idx' = idx + 1
    /\ last' = NoStep
    /\ UNCHANGED <<downloadList, pending, succeeded, retryCount, unfinished,
                   elapsed, ctxDone, result, err>>
    /\ UNCHANGED outsideMonitor

\* "Build list of successful downloads"
successfulDownloadsOrPending(n) ==
    SelectSeq([i \in 1..n |-> i], LAMBDA i : succeeded[i] \/ pending[i])
successfulDownloads(n) == SelectSeq([i \in 1..n |-> i], LAMBDA i : succeeded[i])

\* The two exit checks after the inner loop: "all done" and the stall timeout.
ShouldStopAtTimeout(u, e) == u = 0 \/ e >= StalledTimeout
ShouldStop(u, e) == u = 0 \/ e > StalledTimeout

\* time.Since(startTime) as the timeout check can read it, in seconds with a
\* started second counted whole (s > StalledTimeout for the time s exactly when
\* the count is above StalledTimeout). e counts the sleeps made so far; the
\* remote calls of the tick and the sleeps' overshoot take a time above zero
\* and without bound: the check can read any time from the slept one on. The
\* check tells no two times above StalledTimeout apart, so they are all read
\* as the first of them.
Since(e) ==
    LET slept == IF e = 0 THEN 1 ELSE e
    IN  slept .. (IF slept > StalledTimeout THEN slept ELSE StalledTimeout + 1)

\* After the inner loop: the exit checks, then the sleep; on exit the function
\* returns the list of succeeded items.
TickEnd ==
    /\ pc = "items"
    /\ idx > Len(downloadList)
    /\ \E now \in Since(elapsed) :
          IF ShouldStop(unfinished, now)
          THEN /\ pc' = "done"
               /\ result' = successfulDownloads(Len(downloadList))
               /\ elapsed' = now
          ELSE /\ pc' = "tick"
               /\ elapsed' = now + PollInterval
               /\ UNCHANGED result
    /\ UNCHANGED <<downloadList, idx, pending, succeeded, retryCount, unfinished,
                   ctxDone, err, last>>
    /\ UNCHANGED outsideMonitor

Next == Cancel \/ TickStart \/ SkipItem \/ PollItem \/ NextItem \/ TickEnd

Spec == Init /\ [][Next]_vars

\* The program's own steps. Every remote call returns and every sleep ends,
\* so a step that is enabled is eventually taken. The record of the latest
\* step plays no part in the loop's progress and is left out here.
Step == TickStart \/ SkipItem \/ PollItemQuiet \/ NextItem \/ TickEnd

FairNext == Cancel \/ Step

FairSpec == Init /\ [][FairNext]_vars /\ WF_vars(Step)

TypeOK ==
    /\ pc \in {"tick", "items", "polled", "done"}
    /\ \A i \in Items : retryCount[i] \in 0..maxRetries

(***************************************************************************)
(* What a listing says about an item, read off the listing itself          *)
(***************************************************************************)
ErroredStateSet == {StCancelled, StTimedOut, StErrored, StRejected}

HasCompletedPrefix(st) == Len(st) >= 9 /\ SubSeq(st, 1, 9) = Completed

\* The transfer records the listing holds for the item's (username, directory).
ReportedFiles(downloads, item) ==
    UNION { UNION { { downloads[u].Directories[d].Files[k] :
                        k \in 1..Len(downloads[u].Directories[d].Files) } :
                    d \in { e \in 1..Len(downloads[u].Directories) :
                            NormalizeSlashes(downloads[u].Directories[e].Directory)
                                = item.Directory } } :
            u \in { v \in 1..Len(downloads) : downloads[v].Username = item.Username } }

SeenOf ==
    [i \in 1..Len(ItemCatalog) |->
        [rep \in Reports |->
            LET F == ReportedFiles(ListingOf(ItemCatalog[i], rep), ItemCatalog[i])
                E == {f \in F : f.State \in ErroredStateSet}
                C == {f \in F \ E : HasCompletedPrefix(f.State)}
            IN  [files |-> F, errored |-> E, completed |-> C, inProgress |-> (F \ E) \ C]]]

\* The latest step of the inner loop received a listing; Seen is what it said.
Polled == pc = "polled" /\ last.kind = "listing"
Seen == SeenOf[downloadList[last.idx].AlbumID][last.report]
Range(q) == {q[k] : k \in 1..Len(q)}

(***************************************************************************)
(* Claims about monitorDownloads                                           *)
(***************************************************************************)
\* The step from this state to the next is the loop body for item i, and the
\* listing it received shows at least one errored file.
ErroredTick(i) ==
    /\ pc = "items" /\ pc' = "polled" /\ idx = i
    /\ last'.kind = "listing"
    /\ SeenOf[downloadList[i].AlbumID][last'.report].errored # {}

\* C1: every item's retry counter starts at 0, grows by exactly 1 on each
\* tick on which the item has an errored file while the counter is below 3,
\* changes on no other step and never exceeds 3; a re-enqueue request is sent
\* only on a step that increments the counter, so at most 3 are ever sent
\* for one item.
C1_RetryCounter ==
    /\ \A i \in Items : retryCount[i] = 0
    /\ [][\A i \in Items :
            /\ retryCount'[i] = IF ErroredTick(i) /\ retryCount[i] < 3
                                THEN retryCount[i] + 1
                                ELSE retryCount[i]
            /\ retryCount'[i] <= 3
            /\ (last'.idx = i /\ last'.enqueues # <<>>)
                  => (/\ Len(last'.enqueues) = 1
                      /\ retryCount'[i] = retryCount[i] + 1)]_vars

\* The third and last re-enqueue of an item.
C1_Witness ==
    /\ Polled
    /\ last.retries = 2
    /\ retryCount[last.idx] = 3
    /\ last.enqueues # <<>>

\* C2: on a tick where the item has an errored file, its retry counter is
\* already 3 and no file is in progress, the item is finalized: succeeded iff
\* at least one file completed, failed otherwise; and an item finalized while
\* a file is errored has used exactly 3 retries.
C2_ExhaustedFinalizes ==
    Polled =>
        /\ (Seen.errored # {} /\ last.retries = 3 /\ Seen.inProgress = {})
              => /\ ~pending[last.idx]
                 /\ succeeded[last.idx] = (Seen.completed # {})
        /\ (Seen.errored # {} /\ ~pending[last.idx])
              => /\ last.retries = 3
                 /\ retryCount[last.idx] = 3

\* Two files completed and one errored on the tick after the third retry.
C2_Witness ==
    /\ Polled
    /\ last.report.files = <<"ok", "ok", "err">>
    /\ last.retries = 3
    /\ ~pending[last.idx]
    /\ succeeded[last.idx]

\* C3: a failed listing fetch is not an item failure and does not end the
\* loop: short of cancellation and the stall timeout, monitorDownloads does
\* not return while an item is still pending.
C3_FetchErrorKeepsMonitoring ==
    (pc = "done" /\ err = "nil" /\ elapsed <= StalledTimeout)
        => \A i \in Items : ~pending[i]

\* C4: on a return without cancellation the returned list is exactly the
\* items marked succeeded, in their original order and without duplicates;
\* no item that is still pending, was dropped or failed is in it.
C4_ReturnsSucceeded ==
    (pc = "done" /\ err = "nil") =>
        /\ \A k \in 1..Len(result) : result[k] \in Items
        /\ \A j, k \in 1..Len(result) : j < k => result[j] < result[k]
        /\ \A i \in Items : (i \in Range(result)) <=> succeeded[i]
        /\ \A i \in Items : succeeded[i] => ~pending[i]

\* Both items returned, in list order.
C4_Witness ==
    /\ pc = "done" /\ err = "nil"
    /\ result = <<1, 2>>

\* A tick ends with a return iff it counted no item unfinished or the elapsed
\* time read at its end is above the stall timeout (the time is left in
\* elapsed on a return, and PollInterval later when the loop sleeps), and
\* there is no other return without error.
ReturnsAtTickEnd ==
    /\ (pc = "items" /\ idx > Len(downloadList))
          => /\ pc' = "done" => (unfinished = 0 \/ elapsed' > StalledTimeout)
             /\ pc' # "done" => (/\ unfinished > 0
                                 /\ elapsed' - PollInterval <= StalledTimeout)
    /\ (pc # "done" /\ pc' = "done" /\ err' = "nil")
          => (pc = "items" /\ idx > Len(downloadList))
    /\ (pc' = "done" /\ err' = "nil" /\ unfinished' > 0)
          => (/\ elapsed' > StalledTimeout
              /\ \A i \in Items : pending'[i] => i \notin Range(result'))

\* C5: monitorDownloads terminates; it returns (without error) exactly at the
\* end of the first tick that counted no item unfinished or that ended with
\* the elapsed time above the stall timeout, so a return with an item still
\* counted unfinished happens only after the timeout, without that item.
C5_Terminates ==
    /\ <>(pc = "done")
    /\ [][ReturnsAtTickEnd]_vars

\* One item, in progress at every tick until the timeout: nothing is returned.
C5_Witness ==
    /\ pc = "done" /\ err = "nil"
    /\ Len(downloadList) = 1
    /\ pending[1] /\ unfinished = 1
    /\ elapsed > StalledTimeout
    /\ result = <<>>

\* C6: when the listing holds no files for the item's (username, directory)
\* the item is dropped on that tick: no longer pending, not succeeded, no
\* cancel and no enqueue request; and an item that is neither pending nor
\* succeeded stays so and is never polled again.
C6_AbsentIsDropped ==
    [][\A i \in Items :
        /\ (pc = "items" /\ pc' = "polled" /\ idx = i /\ last'.kind = "listing"
              /\ SeenOf[downloadList[i].AlbumID][last'.report].files = {})
            => /\ ~pending'[i] /\ ~succeeded'[i]
               /\ last'.cancels = <<>> /\ last'.enqueues = <<>>
        /\ (~pending[i] /\ ~succeeded[i])
            => /\ ~pending'[i] /\ ~succeeded'[i]
               /\ ~(pc' = "polled" /\ last'.idx = i)]_vars

\* The item's peer is listed, its directory is not.
C6_Witness ==
    /\ Polled
    /\ last.report.shape = "otherDir"
    /\ ~pending[last.idx] /\ ~succeeded[last.idx]

\* C7: on a tick where the item's entry has files and none is errored: with
\* none in progress the item is marked succeeded and leaves pending; with one
\* in progress it stays pending, is not succeeded, and no cancel or enqueue
\* request is issued.
C7_NoErrors ==
    (Polled /\ Seen.files # {} /\ Seen.errored = {}) =>
        IF Seen.inProgress = {}
        THEN succeeded[last.idx] /\ ~pending[last.idx]
        ELSE /\ pending[last.idx] /\ ~succeeded[last.idx]
             /\ last.cancels = <<>> /\ last.enqueues = <<>>

\* A completed and a still running file: the item keeps being monitored.
C7_Witness ==
    /\ Polled
    /\ last.report.files = <<"ok", "run">>
    /\ pending[last.idx]

\* C8: with errored files, the retry counter at 3 and a file still in
\* progress the item stays pending, neither succeeded nor failed; an item
\* leaves pending only on a tick on which no file is in progress.
C8_ExhaustedWaits ==
    Polled =>
        /\ (Seen.errored # {} /\ last.retries = 3 /\ Seen.inProgress # {})
              => /\ pending[last.idx] /\ ~succeeded[last.idx]
                 /\ retryCount[last.idx] = 3
        /\ ~pending[last.idx] => Seen.inProgress = {}

\* Retries exhausted, one file errored, one still running.
C8_Witness ==
    /\ Polled
    /\ last.retries = 3
    /\ Seen.errored # {} /\ Seen.inProgress # {}
    /\ pending[last.idx]

\* The file names a step's re-enqueue requests carry.
EnqueuedNames == UNION { {q.Files[k].Filename : k \in 1..Len(q.Files)} : q \in Range(last.enqueues) }
EnqueuedFiles == UNION { Range(q.Files) : q \in Range(last.enqueues) }

\* C9 as claimed: on a retry tick the re-enqueue request names exactly the
\* files reported errored on that tick.
C9_RetryNamesAllErrored ==
    (Polled /\ Seen.errored # {} /\ last.retries < 3) =>
        /\ Len(last.enqueues) = 1
        /\ EnqueuedNames = {f.Filename : f \in Seen.errored}

\* The errored files whose path lies directly in the item's directory.
ErroredInDirectory ==
    {f \in Seen.errored :
        FilepathDir(NormalizeSlashes(f.Filename)) = downloadList[last.idx].Directory}

\* C9 amended: on a retry tick the re-enqueue request names exactly the
\* errored files whose directory is the item's directory, each with its size,
\* under the item's username; no request is sent when there is none, and no
\* request at all on a tick that is not a retry tick.
C9_RetryNamesErroredInDirectory ==
    Polled =>
        IF Seen.errored # {} /\ last.retries < 3 /\ ErroredInDirectory # {}
        THEN /\ Len(last.enqueues) = 1
             /\ last.enqueues[1].Username = downloadList[last.idx].Username
             /\ EnqueuedFiles = {[Filename |-> f.Filename, Size |-> f.Size] :
                                    f \in ErroredInDirectory}
             /\ Len(last.enqueues[1].Files) = Cardinality(ErroredInDirectory)
        ELSE last.enqueues = <<>>

\* A retry tick with an errored file outside the directory, a completed file
\* and an errored file of the directory.
C9_Witness ==
    /\ Polled
    /\ last.report.files = <<"stray", "ok", "err">>
    /\ last.retries < 3
    /\ Len(last.enqueues) = 1

\* C10: on every tick on which the listing shows errored files, one cancel
\* request is issued for each errored file, by its transfer id under the
\* item's username, and for no other file, whether or not retries remain;
\* when the cancel requests fail the item makes the same transition.
C10_CancelsErrored ==
    Polled =>
        /\ Range(last.cancels) =
              {[Username |-> downloadList[last.idx].Username, ID |-> f.ID] :
                  f \in Seen.errored}
        /\ Len(last.cancels) = Cardinality(Seen.errored)
        /\ (Seen.errored # {} /\ ~last.cancelOk) =>
              (IF last.retries < 3
               THEN /\ pending[last.idx] /\ ~succeeded[last.idx]
                    /\ retryCount[last.idx] = last.retries + 1
               ELSE /\ retryCount[last.idx] = last.retries
                    /\ pending[last.idx] = (Seen.inProgress # {})
                    /\ succeeded[last.idx] = (Seen.inProgress = {} /\ Seen.completed # {}))

\* Retries exhausted, the cancel request of the errored file fails.
C10_Witness ==
    /\ Polled
    /\ last.retries = 3
    /\ last.report.files = <<"ok", "err", "run">>
    /\ Len(last.cancels) = 1
    /\ ~last.cancelOk

\* C35: terminal states are absorbing. An item that left pending never
\* becomes pending again, and no step of the loop body, so no cancel or
\* enqueue request, is made for it afterwards; an item is marked succeeded
\* only on the step on which it leaves pending, the mark is never removed,
\* and succeeded implies not pending.
C35_TerminalAbsorbing ==
    /\ [](\A i \in Items : succeeded[i] => ~pending[i])
    /\ [][\A i \in Items :
            /\ ~pending[i] => ~pending'[i]
            /\ succeeded[i] => succeeded'[i]
            /\ (succeeded'[i] /\ ~succeeded[i]) => (pending[i] /\ ~pending'[i])
            /\ (last'.kind # "none" /\ last'.idx = i /\ last' # last) => pending[i]
            /\ ~pending[i] => (last'.cancels = <<>> /\ last'.enqueues = <<>>)
                              \/ last'.idx # i]_vars

\* One item succeeded and was skipped on a later tick while another item
\* was still polled.
C35_Witness ==
    /\ pc = "polled"
    /\ last.kind = "listing"
    /\ \E i \in Items : i < last.idx /\ succeeded[i] /\ ~pending[i]
    /\ elapsed > 0


\* C11: the context is read at the start of every tick, before the first item
\* of the tick; the step that finds it cancelled makes no listing, cancel or
\* enqueue request, changes no item's pending, succeeded or retry state and
\* returns the cancellation error with an empty result, and nothing happens
\* after a return.
C11_CancelAborts ==
    [][/\ (pc' = "items" /\ idx' = 1) => (pc = "tick" /\ ~ctxDone)
       /\ (pc = "tick" /\ ctxDone)
             => /\ pc' = "done" /\ err' = "ctx" /\ result' = <<>>
                /\ last' = NoStep
                /\ pending' = pending /\ succeeded' = succeeded
                /\ retryCount' = retryCount
       /\ (err' = "ctx") => (pc = "tick" /\ ctxDone)
       /\ (last'.kind # "none") => (pc = "items" /\ err' = "nil")
       /\ pc # "done"]_vars

\* Cancelled after one item succeeded and while the other is still pending:
\* neither is returned.
C11_Witness ==
    /\ pc = "done" /\ err = "ctx"
    /\ result = <<>>
    /\ \E i \in Items : succeeded[i]
    /\ \E i \in Items : pending[i] /\ retryCount[i] > 0

\* C12: a tick fetches the transfer listing once, for all its pending items.
\* Each loop-body step of the model is one GetDownloads call, and an item of a
\* lower index that is still pending was polled by such a step earlier in the
\* same tick; so the step that fetches for item idx finds no lower item pending.
C12_OneFetchPerTick ==
    [][(pc = "items" /\ pc' = "polled")
          => \A j \in 1..(idx - 1) : ~pending[j]]_vars

(***************************************************************************)
(* Part 2: Processor.chooseRelease                                         *)
(*                                                                         *)
(* The album's release list (fetched on demand when the album carries      *)
(* none), the track-count tally kept in a Go map, the pick of the most     *)
(* common count by ranging over that map (in whatever order the runtime    *)
(* yields the keys), and the three selection loops. searchAndQueueDownloads*)
(* calls it for an album on every run, so the same album is chosen for     *)
(* twice here.                                                             *)
(***************************************************************************)
\* Longest release list of an album.
MaxReleases == 3

Official == "Official"
StatusValues == {Official, "Bootleg"}
TrackCountValues == {10, 12}

\* Release lists; the release at position k has ID k.
ReleaseLists ==
    UNION {{[k \in 1..n |-> [ID |-> k, TrackCount |-> f[k][1], Status |-> f[k][2]]] :
                f \in [1..n -> TrackCountValues \X StatusValues]} :
           n \in 0..MaxReleases}

NilRelease == [ID |-> 0, TrackCount |-> 0, Status |-> ""]

\* The monitoring loop is not running.
MonitorIdle ==
    /\ downloadList = <<>>
    /\ pc = "done"
    /\ idx = 1
    /\ pending = <<>>
    /\ succeeded = <<>>
    /\ retryCount = <<>>
    /\ unfinished = 0
    /\ elapsed = 0
    /\ ctxDone = FALSE
    /\ result = <<>>
    /\ err = "nil"
    /\ last = NoStep

\* trackCounts[r.TrackCount]++ for every release
trackCounts(rs) ==
    [c \in {rs[k].TrackCount : k \in 1..Len(rs)} |->
        Cardinality({k \in 1..Len(rs) : rs[k].TrackCount = c})]

\* The orders in which ranging over the map can yield its keys.
KeyOrders(tc) ==
    {o \in [1..Cardinality(DOMAIN tc) -> DOMAIN tc] :
        \A i, j \in DOMAIN o : i # j => o[i] # o[j]}

\* for count, occurrences := range trackCounts { if occurrences > maxOccurrences ... }
RECURSIVE mostCommonFrom(_, _, _, _, _)
mostCommonFrom(order, tc, k, mostCommon, maxOccurrences) ==
    IF k > Len(order) THEN mostCommon
    ELSE IF tc[order[k]] > maxOccurrences
         THEN mostCommonFrom(order, tc, k + 1, order[k], tc[order[k]])
         ELSE mostCommonFrom(order, tc, k + 1, mostCommon, maxOccurrences)

mostCommonCount(order, tc) == mostCommonFrom(order, tc, 1, 0, 0)

MinOf(S) == CHOOSE k \in S : \A j \in S : k <= j

\* The three loops over a non-empty list: an official release with the most
\* common track count, else the first official release, else the first one.
selectReleaseAnyStatus(rs, mostCommon) ==
    LET ideal == {k \in 1..Len(rs) : rs[k].TrackCount = mostCommon}
        official == {k \in 1..Len(rs) : rs[k].Status = Official}
    IN  IF ideal # {} THEN rs[MinOf(ideal)]
        ELSE IF official # {} THEN rs[MinOf(official)]
        ELSE rs[1]
selectRelease(rs, mostCommon) ==
    LET ideal == {k \in 1..Len(rs) :
                    rs[k].Status = Official /\ rs[k].TrackCount = mostCommon}
        official == {k \in 1..Len(rs) : rs[k].Status = Official}
    IN  IF ideal # {} THEN rs[MinOf(ideal)]
        ELSE IF official # {} THEN rs[MinOf(official)]
        ELSE rs[1]

ReleaseInit ==
    /\ MonitorIdle
    /\ QueueIdle
    /\ AroundIdle
    /\ crPc = "call"
    /\ album \in {[ID |-> 1, Releases |-> rs] : rs \in ReleaseLists}
    /\ releases = <<>>
    /\ release = NoRelease
    /\ earlier = NoCall

\* releases := album.Releases; if len(releases) == 0 { fetch }
ChooseStart ==
    /\ crPc = "call"
    /\ releases' = album.Releases
    /\ crPc' = IF Len(album.Releases) = 0 THEN "fetch" ELSE "select"
    /\ UNCHANGED <<album, release, earlier, outsideRelease>>

\* fullAlbum, err := p.lidarr.GetAlbum(ctx, album.ID)
GetAlbum ==
    /\ crPc = "fetch"
    /\ \/ /\ release' = [err |-> "fetch album", value |-> NilRelease]
          /\ crPc' = "returned"
          /\ UNCHANGED releases
       \/ \E rs \in ReleaseLists :
            /\ releases' = rs
            /\ crPc' = "select"
            /\ UNCHANGED release
    /\ UNCHANGED <<album, earlier, outsideRelease>>

\* What chooseRelease can return for a release list: the empty-list check,
\* the tally, the pick of the most common count and the selection loops.
releaseOutcomes(rs) ==
    IF Len(rs) = 0
    THEN {[err |-> "no releases available", value |-> NilRelease]}
    ELSE {[err |-> "nil",
           value |-> selectRelease(rs, mostCommonCount(order, trackCounts(rs)))] :
              order \in KeyOrders(trackCounts(rs))}

SelectRelease ==
    /\ crPc = "select"
    /\ release' \in releaseOutcomes(releases)
    /\ crPc' = "returned"
    /\ UNCHANGED <<album, releases, earlier, outsideRelease>>

\* The next run reaches the same album and calls chooseRelease again.
ChooseAgain ==
    /\ crPc = "returned"
    /\ earlier = NoCall
    /\ earlier' = [releases |-> releases, release |-> release]
    /\ crPc' = "call"
    /\ releases' = <<>>
    /\ release' = NoRelease
    /\ UNCHANGED <<album, outsideRelease>>

ReleaseNext == ChooseStart \/ GetAlbum \/ SelectRelease \/ ChooseAgain

ReleaseSpec == ReleaseInit /\ [][ReleaseNext]_vars

\* The track counts that occur most often in a list.
Modes(rs) ==
    {c \in DOMAIN trackCounts(rs) :
        \A d \in DOMAIN trackCounts(rs) : trackCounts(rs)[d] <= trackCounts(rs)[c]}

\* Position k of the list is the one the preference rule names for mode m.
Preferred(rs, k, m) ==
    LET Ideal(j) == rs[j].Status = "Official" /\ rs[j].TrackCount = m
        Off(j) == rs[j].Status = "Official"
    IN  IF \E j \in 1..Len(rs) : Ideal(j)
        THEN Ideal(k) /\ \A j \in 1..(k - 1) : ~Ideal(j)
        ELSE IF \E j \in 1..Len(rs) : Off(j)
        THEN Off(k) /\ \A j \in 1..(k - 1) : ~Off(j)
        ELSE k = 1

\* C18: chooseRelease fails with "no releases available" iff the list is
\* empty after the on-demand fetch (the fetch is made only for an album that
\* carries no releases, and its failure is a different error); otherwise it
\* returns a member of the list: the first official release with a most
\* frequent track count, else the first official release, else the first
\* release. For track counts [10,10,12] with only the third release official
\* it returns the third.
C18_ChooseRelease ==
    crPc = "returned" =>
        /\ release.err \in {"nil", "fetch album", "no releases available"}
        /\ (release.err = "fetch album") => (album.Releases = <<>>)
        /\ (album.Releases # <<>>) => (releases = album.Releases)
        /\ (release.err # "fetch album")
              => ((release.err = "no releases available") <=> (releases = <<>>))
        /\ (release.err = "nil")
              => \E k \in 1..Len(releases) :
                    /\ release.value = releases[k]
                    /\ \E m \in Modes(releases) : Preferred(releases, k, m)
                    /\ (Cardinality(Modes(releases)) = 1)
                          => \A m \in Modes(releases) : Preferred(releases, k, m)
        /\ (/\ [k \in 1..Len(releases) |-> releases[k].TrackCount] = <<10, 10, 12>>
            /\ {k \in 1..Len(releases) : releases[k].Status = "Official"} = {3})
              => (release.err = "nil" /\ release.value.ID = 3)

\* The list [10,10,12] with only the 12-track release official, fetched on
\* demand: the 12-track release is returned.
C18_Witness ==
    /\ crPc = "returned"
    /\ album.Releases = <<>>
    /\ [k \in 1..Len(releases) |-> releases[k].TrackCount] = <<10, 10, 12>>
    /\ {k \in 1..Len(releases) : releases[k].Status = "Official"} = {3}
    /\ release.value.ID = 3

\* C19: release selection is deterministic: two calls of chooseRelease that
\* work on the same ordered release list return the same release, also when
\* several track counts tie for the highest frequency.
C19_SameListSameRelease ==
    (/\ crPc = "returned"
     /\ release.err = "nil" /\ earlier.release.err = "nil"
     /\ earlier.releases = releases)
        => release.value = earlier.release.value

(***************************************************************************)
(* Part 3: strings, the quality filter and the track matcher               *)
(*                                                                         *)
(* A string whose characters the code inspects is a sequence of one-       *)
(* character strings. In a file path the directory segments are kept       *)
(* whole and the file name is spelled out character by character.          *)
(***************************************************************************)
\* The letters with two cases up to U+00FF, upper case and lower case at the
\* same positions. A character beyond U+00FF is written as its code point,
\* "U+0301", and so are the control characters U+000B and U+0085.
UpperLetters ==
    <<"A", "B", "C", "D", "E", "F", "G", "H", "I", "J", "K", "L", "M",
      "N", "O", "P", "Q", "R", "S", "T", "U", "V", "W", "X", "Y", "Z",
      "À", "Á", "Â", "Ã", "Ä", "Å", "Æ", "Ç", "È", "É", "Ê", "Ë", "Ì", "Í",
      "Î", "Ï", "Ð", "Ñ", "Ò", "Ó", "Ô", "Õ", "Ö", "Ø", "Ù", "Ú", "Û", "Ü",
      "Ý", "Þ">>
LowerLetters ==
    <<"a", "b", "c", "d", "e", "f", "g", "h", "i", "j", "k", "l", "m",
      "n", "o", "p", "q", "r", "s", "t", "u", "v", "w", "x", "y", "z",
      "à", "á", "â", "ã", "ä", "å", "æ", "ç", "è", "é", "ê", "ë", "ì", "í",
      "î", "ï", "ð", "ñ", "ò", "ó", "ô", "õ", "ö", "ø", "ù", "ú", "û", "ü",
      "ý", "þ">>
Digits == <<"0", "1", "2", "3", "4", "5", "6", "7", "8", "9">>

ToLowerChar(c) ==
    IF \E i \in 1..Len(UpperLetters) : UpperLetters[i] = c
    THEN LowerLetters[CHOOSE i \in 1..Len(UpperLetters) : UpperLetters[i] = c]
    ELSE c

\* strings.ToLower
ToLower(s) == [i \in 1..Len(s) |-> ToLowerChar(s[i])]

\* strings.Contains
Contains(s, sub) ==
    \E i \in 1..(Len(s) - Len(sub) + 1) : SubSeq(s, i, i + Len(sub) - 1) = sub

\* strings.HasPrefix
HasPrefix(s, prefix) ==
    Len(s) >= Len(prefix) /\ SubSeq(s, 1, Len(prefix)) = prefix

\* strings.EqualFold, on letters without special case folding
EqualFold(a, b) == ToLower(a) = ToLower(b)

\* unicode.IsSpace, up to U+00FF
IsSpace(c) == c \in {" ", "\t", "\n", "\r", "\f", "U+000B", "U+0085", " "}

\* The class \s of package regexp
IsReSpace(c) == c \in {" ", "\t", "\n", "\r", "\f"}

\* strings.Fields
RECURSIVE FieldsFrom(_, _, _, _)
FieldsFrom(s, i, cur, acc) ==
    IF i > Len(s) THEN (IF cur = <<>> THEN acc ELSE Append(acc, cur))
    ELSE IF IsSpace(s[i])
         THEN FieldsFrom(s, i + 1, <<>>, IF cur = <<>> THEN acc ELSE Append(acc, cur))
         ELSE FieldsFrom(s, i + 1, Append(cur, s[i]), acc)
Fields(s) == FieldsFrom(s, 1, <<>>, <<>>)

\* strings.Split with a one-character separator
RECURSIVE SplitFrom(_, _, _, _, _)
SplitFrom(s, sep, i, cur, acc) ==
    IF i > Len(s) THEN Append(acc, cur)
    ELSE IF s[i] = sep
         THEN SplitFrom(s, sep, i + 1, <<>>, Append(acc, cur))
         ELSE SplitFrom(s, sep, i + 1, Append(cur, s[i]), acc)
Split(s, sep) == SplitFrom(s, sep, 1, <<>>, <<>>)

\* strings.Join
RECURSIVE JoinFrom(_, _, _, _)
JoinFrom(parts, sep, k, acc) ==
    IF k > Len(parts) THEN acc
    ELSE JoinFrom(parts, sep, k + 1,
                  IF k = 1 THEN parts[k] ELSE acc \o sep \o parts[k])
Join(parts, sep) == JoinFrom(parts, sep, 1, <<>>)

\* strings.TrimSpace
TrimSpace(s) ==
    LET I == {i \in 1..Len(s) : ~IsSpace(s[i])}
    IN  IF I = {} THEN <<>>
        ELSE SubSeq(s, CHOOSE i \in I : \A j \in I : i <= j,
                       CHOOSE i \in I : \A j \in I : j <= i)

\* regexp \s+ replaced by one space
RECURSIVE CollapseFrom(_, _, _)
CollapseFrom(s, i, acc) ==
    IF i > Len(s) THEN acc
    ELSE IF IsReSpace(s[i])
         THEN CollapseFrom(s, i + 1,
                           IF i > 1 /\ IsReSpace(s[i - 1]) THEN acc ELSE Append(acc, " "))
         ELSE CollapseFrom(s, i + 1, Append(acc, s[i]))
CollapseSpaces(s) == CollapseFrom(s, 1, <<>>)

\* strings.LastIndex for one character, 1-based; 0 when absent
LastIndex(s, c) ==
    LET I == {i \in 1..Len(s) : s[i] = c}
    IN  IF I = {} THEN 0 ELSE CHOOSE i \in I : \A j \in I : j <= i

\* filepath.Base on a clean slash-separated path
FilepathBase(p) ==
    IF Len(p) = 0 THEN <<".">>
    ELSE IF LastSlash(p) = 0 THEN p
    ELSE IF Len(p) = 1 THEN p
    ELSE SubSeq(p, LastSlash(p) + 1, Len(p))

\* filepath.Ext: from the last dot of the last slash-separated element
FilepathExt(p) ==
    LET I == {i \in 1..Len(p) : p[i] = "." /\ \A j \in i..Len(p) : p[j] # "/"}
    IN  IF I = {} THEN <<>>
        ELSE SubSeq(p, CHOOSE i \in I : \A j \in I : j <= i, Len(p))

\* strconv.Atoi: an optional sign and decimal digits
DigitValue(c) == (CHOOSE i \in 1..Len(Digits) : Digits[i] = c) - 1
IsDigits(s) == Len(s) > 0 /\ \A i \in 1..Len(s) : \E k \in 1..Len(Digits) : Digits[k] = s[i]
RECURSIVE DigitsValue(_, _, _)
DigitsValue(s, i, acc) ==
    IF i > Len(s) THEN acc ELSE DigitsValue(s, i + 1, 10 * acc + DigitValue(s[i]))
Atoi(s) ==
    LET signed == Len(s) > 0 /\ s[1] \in {"+", "-"}
        body == IF signed THEN Tail(s) ELSE s
    IN  IF ~IsDigits(body) THEN [ok |-> FALSE, value |-> 0]
        ELSE [ok |-> TRUE,
              value |-> IF signed /\ s[1] = "-" THEN 0 - DigitsValue(body, 1, 0)
                        ELSE DigitsValue(body, 1, 0)]

\* A metadata field of a search file that is absent (a nil pointer); the
\* values that are present are not negative.
Nil == 0 - 1

Flac == <<"f", "l", "a", "c">>
Mp3 == <<"m", "p", "3">>
Jpg == <<"j", "p", "g">>

\* float64 arithmetic on positive rationals, on the bits of the significand
\* (most significant first) and the exponent of its first bit.
SignificandBits == 53

RECURSIVE Pow10(_)
Pow10(k) == IF k = 0 THEN 1 ELSE 10 * Pow10(k - 1)

RECURSIVE IntBits(_)
IntBits(q) == IF q = 0 THEN <<>> ELSE Append(IntBits(q \div 2), q % 2)

RECURSIVE BitsValue(_, _, _)
BitsValue(bits, i, acc) ==
    IF i > Len(bits) THEN acc ELSE BitsValue(bits, i + 1, 2 * acc + bits[i])

RECURSIVE IncBits(_)
IncBits(bits) ==
    IF bits = <<>> THEN <<1>>
    ELSE IF bits[Len(bits)] = 0 THEN Append(SubSeq(bits, 1, Len(bits) - 1), 1)
    ELSE Append(IncBits(SubSeq(bits, 1, Len(bits) - 1)), 0)

\* Round to nearest, ties to even, to a significand of 53 bits.
Round53(bits, sticky, e) ==
    LET m == SubSeq(bits, 1, SignificandBits)
        guard == IF Len(bits) > SignificandBits THEN bits[SignificandBits + 1] ELSE 0
        rest == sticky \/ \E i \in (SignificandBits + 2)..Len(bits) : bits[i] = 1
        up == guard = 1 /\ (rest \/ m[SignificandBits] = 1)
        r == IF up THEN IncBits(m) ELSE m
    IN  IF Len(r) > SignificandBits
        THEN [m |-> SubSeq(r, 1, SignificandBits), e |-> e + 1]
        ELSE [m |-> r, e |-> e]

\* The first 54 bits of the binary expansion of a number whose integer part
\* is spelled by sig and whose fraction is r/d.
RECURSIVE SigBits(_, _, _, _)
SigBits(sig, e, r, d) ==
    IF Len(sig) > SignificandBits THEN [sig |-> sig, e |-> e, sticky |-> r # 0]
    ELSE LET b == (2 * r) \div d
             r2 == (2 * r) % d
         IN  IF sig = <<>> /\ b = 0 THEN SigBits(sig, e - 1, r2, d)
             ELSE SigBits(Append(sig, b), e, r2, d)

\* The float64 nearest to num/den, num > 0 (what strconv.ParseFloat returns).
NearestFloat(num, den) ==
    LET whole == IntBits(num \div den)
        s == SigBits(whole, Len(whole) - 1, num % den, den)
    IN  Round53(s.sig, s.sticky, s.e)

\* The bits of the product of a significand and a small integer.
RECURSIVE MulBits(_, _, _, _)
MulBits(bits, i, c, carry) ==
    IF i = 0 THEN IntBits(carry)
    ELSE LET t == bits[i] * c + carry IN
         IF t % 2 = 0 THEN Append(MulBits(bits, i - 1, c, t \div 2), 0)
         ELSE Append(MulBits(bits, i - 1, c, t \div 2), 1)

\* int(f * 1000) for the float64 f nearest to num/den: the product is
\* rounded to a float64 and then cut to an integer.
TruncTimes1000(num, den) ==
    IF num = 0 THEN 0
    ELSE LET f == NearestFloat(num, den)
             product == MulBits(f.m, SignificandBits, 1000, 0)
             g == Round53(product, FALSE,
                          f.e - (SignificandBits - 1) + Len(product) - 1)
         IN  IF g.e < 0 THEN 0 ELSE BitsValue(SubSeq(g.m, 1, g.e + 1), 1, 0)

HexLetters == <<"a", "b", "c", "d", "e", "f">>
IsDecimalDigit(c) == \E k \in 1..Len(Digits) : Digits[k] = c
IsHexLetter(c) == \E k \in 1..Len(HexLetters) : HexLetters[k] = c
HexDigitValue(c) ==
    IF IsDecimalDigit(c) THEN DigitValue(c)
    ELSE 9 + (CHOOSE k \in 1..Len(HexLetters) : HexLetters[k] = c)

RECURSIVE BaseValue(_, _, _, _)
BaseValue(s, base, i, acc) ==
    IF i > Len(s) THEN acc
    ELSE BaseValue(s, base, i + 1, base * acc + HexDigitValue(s[i]))

RECURSIVE Pow2(_)
Pow2(k) == IF k = 0 THEN 1 ELSE 2 * Pow2(k - 1)

\* strings.Index for one character, 1-based; 0 when absent
IndexOf(s, c) ==
    LET I == {i \in 1..Len(s) : s[i] = c}
    IN  IF I = {} THEN 0 ELSE CHOOSE i \in I : \A j \in I : i <= j

\* strconv.ParseFloat(s, 64), letters in either case: "inf", "infinity",
\* "nan"; or an optional sign, an optional "0x", digits with an optional
\* point, and an exponent ("e" and decimal digits; after "0x" the exponent
\* is "p" and is required), with underscores between digits. The value is
\* the magnitude num/den, written 1/0 for an infinity and 0/0 for NaN; it
\* is followed for numerators and denominators of at most 31 bits.
NoFloat == [ok |-> FALSE, neg |-> FALSE, num |-> 0, den |-> 1]
IsBaseDigit(c, hex) == IsDecimalDigit(c) \/ (hex /\ IsHexLetter(c))

\* The value of the digits read: mantissa * base^exponent, the point moved
\* over the fracLen digits after it (four bits for a hexadecimal digit).
floatValue(mantDigits, fracLen, exponent, neg, hex) ==
    LET scale == exponent - (IF hex THEN 4 ELSE 1) * fracLen
        value == BaseValue(mantDigits, IF hex THEN 16 ELSE 10, 1, 0)
    IN  [ok |-> TRUE,
         neg |-> neg,
         num |-> IF scale < 0 THEN value
                 ELSE IF hex THEN value * Pow2(scale) ELSE value * Pow10(scale),
         den |-> IF scale >= 0 THEN 1
                 ELSE IF hex THEN Pow2(0 - scale) ELSE Pow10(0 - scale)]

\* The mantissa: digits and at most one point, with a digit among them.
readDigits(mantissa, point, exponent, neg, hex) ==
    IF \/ \E i \in 1..Len(mantissa) :
             ~(\/ IsBaseDigit(mantissa[i], hex)
               \/ mantissa[i] = "_"
               \/ (mantissa[i] = "." /\ i = point))
       \/ \A i \in 1..Len(mantissa) : ~IsBaseDigit(mantissa[i], hex)
    THEN NoFloat
    ELSE floatValue(SelectSeq(mantissa, LAMBDA c : IsBaseDigit(c, hex)),
                    IF point = 0 THEN 0
                    ELSE Len(SelectSeq(SubSeq(mantissa, point + 1, Len(mantissa)),
                                       LAMBDA c : IsBaseDigit(c, hex))),
                    exponent, neg, hex)
readMantissa(mantissa, exponent, neg, hex) ==
    readDigits(mantissa, IndexOf(mantissa, "."), exponent, neg, hex)

\* The exponent after its sign: decimal digits, the first one a digit.
readExpBody(mantissa, expBody, expNeg, neg, hex) ==
    IF \/ Len(expBody) = 0
       \/ ~IsDecimalDigit(expBody[1])
       \/ \E i \in 1..Len(expBody) :
             ~(IsDecimalDigit(expBody[i]) \/ expBody[i] = "_")
    THEN NoFloat
    ELSE readMantissa(mantissa,
                      IF expNeg
                      THEN 0 - BaseValue(SelectSeq(expBody, IsDecimalDigit), 10, 1, 0)
                      ELSE BaseValue(SelectSeq(expBody, IsDecimalDigit), 10, 1, 0),
                      neg, hex)
readExponent(mantissa, expText, neg, hex) ==
    IF Len(expText) > 0 /\ expText[1] \in {"+", "-"}
    THEN readExpBody(mantissa, Tail(expText), expText[1] = "-", neg, hex)
    ELSE readExpBody(mantissa, expText, FALSE, neg, hex)

\* The digits, after the "0x" if there is one: split at the exponent letter,
\* which stands at ePos (0: there is none).
readParts(rest, ePos, neg, hex) ==
    IF ePos = 0
    THEN IF hex THEN NoFloat ELSE readMantissa(rest, 0, neg, hex)
    ELSE readExponent(SubSeq(rest, 1, ePos - 1),
                      SubSeq(rest, ePos + 1, Len(rest)), neg, hex)

\* underscoreOK: an underscore stands between two digits, the "0x" counted
\* as a digit.
underscoreOK(t, hex) ==
    \A i \in 1..Len(t) :
        t[i] = "_"
          => /\ i > 1 /\ (IsBaseDigit(t[i - 1], hex) \/ (hex /\ i = 3))
             /\ i < Len(t) /\ IsBaseDigit(t[i + 1], hex)
readFloat(t, neg, hex) ==
    IF ~underscoreOK(t, hex) THEN NoFloat
    ELSE IF hex
    THEN readParts(SubSeq(t, 3, Len(t)), IndexOf(SubSeq(t, 3, Len(t)), "p"), neg, hex)
    ELSE readParts(t, IndexOf(t, "e"), neg, hex)

\* The text after the sign, in lower case.
parseUnsigned(t, signed, neg) ==
    IF t \in {<<"i", "n", "f">>, <<"i", "n", "f", "i", "n", "i", "t", "y">>}
    THEN [ok |-> TRUE, neg |-> neg, num |-> 1, den |-> 0]
    ELSE IF ~signed /\ t = <<"n", "a", "n">>
    THEN [ok |-> TRUE, neg |-> FALSE, num |-> 0, den |-> 0]
    ELSE readFloat(t, neg, Len(t) > 2 /\ t[1] = "0" /\ t[2] = "x")
ParseFloat(s) ==
    IF Len(s) > 0 /\ s[1] \in {"+", "-"}
    THEN parseUnsigned(ToLower(Tail(s)), TRUE, s[1] = "-")
    ELSE parseUnsigned(ToLower(s), FALSE, FALSE)

\* parseFloatRate: "192" -> 192000, "44.1" -> 44100. A rate with a point is
\* parsed as a float64 (a string with a point names no infinity and no NaN),
\* multiplied by 1000 and cut to an integer. floatRate is the rate of the one
\* float the string was parsed to.
floatRate(f) ==
    IF ~f.ok THEN [ok |-> FALSE, value |-> 0]
    ELSE [ok |-> TRUE,
          value |-> IF f.neg THEN 0 - TruncTimes1000(f.num, f.den)
                    ELSE TruncTimes1000(f.num, f.den)]
parseFloatRate(s) ==
    IF Contains(s, <<".">>)
    THEN floatRate(ParseFloat(s))
    ELSE [ok |-> Atoi(s).ok, value |-> Atoi(s).value * 1000]

\* Filter.matchesFiletype
matchesFiletypeLenient(file, ext, pattern) ==
    LET parts == Fields(ToLower(pattern)) IN
    IF Len(parts) = 0 THEN FALSE
    ELSE IF ext # parts[1] THEN FALSE
    ELSE IF Len(parts) = 1 THEN TRUE
    ELSE IF ext = Flac
    THEN LET qualityParts == Split(parts[2], "/")
             wantedDepth == Atoi(qualityParts[1])
         IN  IF ~wantedDepth.ok THEN TRUE
             ELSE file.BitDepth # Nil /\ file.BitDepth = wantedDepth.value
    ELSE TRUE
matchesFiletype(file, ext, pattern) ==
    LET parts == Fields(ToLower(pattern)) IN
    IF Len(parts) = 0 THEN FALSE
    ELSE IF ext # parts[1] THEN FALSE
    ELSE IF Len(parts) = 1 THEN TRUE
    ELSE IF ext = Flac /\ Len(parts) = 2
    THEN LET qualityParts == Split(parts[2], "/") IN
         IF Len(qualityParts) = 2
         THEN LET wantedDepth == Atoi(qualityParts[1])
                  wantedRate == parseFloatRate(qualityParts[2])
              IN  IF ~wantedDepth.ok \/ ~wantedRate.ok THEN FALSE
                  ELSE IF file.BitDepth # Nil /\ file.SampleRate # Nil
                  THEN file.BitDepth = wantedDepth.value
                       /\ file.SampleRate = wantedRate.value
                  ELSE FALSE
         ELSE FALSE
    ELSE IF ext = Mp3 /\ Len(parts) = 2
    THEN LET wantedBitrate == Atoi(parts[2]) IN
         IF ~wantedBitrate.ok THEN FALSE
         ELSE IF file.BitRate # Nil THEN file.BitRate = wantedBitrate.value
         ELSE FALSE
    ELSE FALSE

\* Filter.FileMatches
FileMatchesFirstPattern(file, allowedFiletypes) ==
    IF Len(allowedFiletypes) = 0 THEN TRUE
    ELSE LET ext == ToLower(FilepathExt(file.Filename)) IN
         IF ext = <<>> THEN FALSE
         ELSE matchesFiletype(file, Tail(ext), allowedFiletypes[1])
FileMatches(file, allowedFiletypes) ==
    IF Len(allowedFiletypes) = 0 THEN TRUE
    ELSE LET ext == ToLower(FilepathExt(file.Filename)) IN
         IF ext = <<>> THEN FALSE
         ELSE \E k \in 1..Len(allowedFiletypes) :
                 matchesFiletype(file, Tail(ext), allowedFiletypes[k])

\* Filter.FilterFilesDebug: the files that match, in their order
FilterFilesKeepsAll(files, allowedFiletypes) == files
FilterFiles(files, allowedFiletypes) ==
    IF Len(allowedFiletypes) = 0 THEN files
    ELSE SelectSeq(files, LAMBDA file : FileMatches(file, allowedFiletypes))

\* matcher.ExtractFilename
ExtractFilename(filename) ==
    IF LastIndex(filename, ".") > 1
    THEN SubSeq(filename, 1, LastIndex(filename, ".") - 1)
    ELSE filename

\* The characters up to U+00FF that have a decomposition, the decomposition of
\* each (compatibility decomposition, norm.NFKD), and whether it is canonical.
Decomposable ==
    <<" ", "¨", "ª", "¯", "²", "³", "´", "µ", "¸", "¹", "º", "¼", "½", "¾",
      "À", "Á", "Â", "Ã", "Ä", "Å", "Ç", "È", "É", "Ê", "Ë", "Ì", "Í", "Î",
      "Ï", "Ñ", "Ò", "Ó", "Ô", "Õ", "Ö", "Ù", "Ú", "Û", "Ü", "Ý", "à", "á",
      "â", "ã", "ä", "å", "ç", "è", "é", "ê", "ë", "ì", "í", "î", "ï", "ñ",
      "ò", "ó", "ô", "õ", "ö", "ù", "ú", "û", "ü", "ý", "ÿ">>
Decomposition ==
    <<<<" ">>, <<" ", "U+0308">>, <<"a">>, <<" ", "U+0304">>, <<"2">>,
      <<"3">>, <<" ", "U+0301">>, <<"U+03BC">>, <<" ", "U+0327">>, <<"1">>,
      <<"o">>, <<"1", "U+2044", "4">>, <<"1", "U+2044", "2">>,
      <<"3", "U+2044", "4">>, <<"A", "U+0300">>, <<"A", "U+0301">>,
      <<"A", "U+0302">>, <<"A", "U+0303">>, <<"A", "U+0308">>,
      <<"A", "U+030A">>, <<"C", "U+0327">>, <<"E", "U+0300">>,
      <<"E", "U+0301">>, <<"E", "U+0302">>, <<"E", "U+0308">>,
      <<"I", "U+0300">>, <<"I", "U+0301">>, <<"I", "U+0302">>,
      <<"I", "U+0308">>, <<"N", "U+0303">>, <<"O", "U+0300">>,
      <<"O", "U+0301">>, <<"O", "U+0302">>, <<"O", "U+0303">>,
      <<"O", "U+0308">>, <<"U", "U+0300">>, <<"U", "U+0301">>,
      <<"U", "U+0302">>, <<"U", "U+0308">>, <<"Y", "U+0301">>,
      <<"a", "U+0300">>, <<"a", "U+0301">>, <<"a", "U+0302">>,
      <<"a", "U+0303">>, <<"a", "U+0308">>, <<"a", "U+030A">>,
      <<"c", "U+0327">>, <<"e", "U+0300">>, <<"e", "U+0301">>,
      <<"e", "U+0302">>, <<"e", "U+0308">>, <<"i", "U+0300">>,
      <<"i", "U+0301">>, <<"i", "U+0302">>, <<"i", "U+0308">>,
      <<"n", "U+0303">>, <<"o", "U+0300">>, <<"o", "U+0301">>,
      <<"o", "U+0302">>, <<"o", "U+0303">>, <<"o", "U+0308">>,
      <<"u", "U+0300">>, <<"u", "U+0301">>, <<"u", "U+0302">>,
      <<"u", "U+0308">>, <<"y", "U+0301">>, <<"y", "U+0308">>>>
Canonical ==
    <<FALSE, FALSE, FALSE, FALSE, FALSE, FALSE, FALSE, FALSE, FALSE, FALSE,
      FALSE, FALSE, FALSE, FALSE, TRUE, TRUE, TRUE, TRUE, TRUE, TRUE, TRUE,
      TRUE, TRUE, TRUE, TRUE, TRUE, TRUE, TRUE, TRUE, TRUE, TRUE, TRUE,
      TRUE, TRUE, TRUE, TRUE, TRUE, TRUE, TRUE, TRUE, TRUE, TRUE, TRUE,
      TRUE, TRUE, TRUE, TRUE, TRUE, TRUE, TRUE, TRUE, TRUE, TRUE, TRUE,
      TRUE, TRUE, TRUE, TRUE, TRUE, TRUE, TRUE, TRUE, TRUE, TRUE, TRUE,
      TRUE, TRUE>>

\* The nonspacing marks (unicode.Mn) of these decompositions.
Marks == {"U+0300", "U+0301", "U+0302", "U+0303", "U+0304", "U+0308", "U+030A", "U+0327"}

DecompositionOf(c) ==
    IF \E i \in 1..Len(Decomposable) : Decomposable[i] = c
    THEN Decomposition[CHOOSE i \in 1..Len(Decomposable) : Decomposable[i] = c]
    ELSE <<c>>
RECURSIVE NFKDFrom(_, _, _)
NFKDFrom(s, i, acc) ==
    IF i > Len(s) THEN acc ELSE NFKDFrom(s, i + 1, acc \o DecompositionOf(s[i]))

\* The canonical combining class: 202 for the cedilla, 230 for the other
\* marks, 0 for every other character of these strings.
CombiningClass(c) ==
    IF c = "U+0327" THEN 202 ELSE IF c \in Marks THEN 230 ELSE 0

\* Canonical ordering: the marks that follow a character are put in the order
\* of their classes, marks of one class staying in the order they came in.
RECURSIVE InsertOrdered(_, _)
InsertOrdered(acc, c) ==
    IF /\ Len(acc) > 0
       /\ CombiningClass(c) > 0
       /\ CombiningClass(acc[Len(acc)]) > CombiningClass(c)
    THEN Append(InsertOrdered(SubSeq(acc, 1, Len(acc) - 1), c), acc[Len(acc)])
    ELSE Append(acc, c)
RECURSIVE CanonicalOrderFrom(_, _, _)
CanonicalOrderFrom(s, i, acc) ==
    IF i > Len(s) THEN acc
    ELSE CanonicalOrderFrom(s, i + 1, InsertOrdered(acc, s[i]))
CanonicalOrder(s) == CanonicalOrderFrom(s, 1, <<>>)

\* norm.NFKD, on characters up to U+00FF and the marks above: every character
\* decomposed, then the canonical ordering
NFKD(s) == CanonicalOrder(NFKDFrom(s, 1, <<>>))

\* runes.Remove(runes.In(unicode.Mn))
RemoveMarks(s) == SelectSeq(s, LAMBDA c : c \notin Marks)

\* The canonical decomposition of a character (norm.NFD).
CanonicalDecompositionOf(c) ==
    IF \E i \in 1..Len(Decomposable) : Decomposable[i] = c /\ Canonical[i]
    THEN Decomposition[CHOOSE i \in 1..Len(Decomposable) : Decomposable[i] = c]
    ELSE <<c>>
RECURSIVE NFDFrom(_, _, _)
NFDFrom(s, i, acc) ==
    IF i > Len(s) THEN acc
    ELSE NFDFrom(s, i + 1, acc \o CanonicalDecompositionOf(s[i]))

\* The primary composites of these characters with the marks, and of the
\* composites with further marks: <<character, mark, composite>>.
Composition ==
    <<<<"A", "U+0300", "À">>, <<"A", "U+0301", "Á">>, <<"A", "U+0302", "Â">>,
      <<"A", "U+0303", "Ã">>, <<"A", "U+0304", "U+0100">>,
      <<"A", "U+0308", "Ä">>, <<"A", "U+030A", "Å">>,
      <<"C", "U+0301", "U+0106">>, <<"C", "U+0302", "U+0108">>,
      <<"C", "U+0327", "Ç">>, <<"D", "U+0327", "U+1E10">>,
      <<"E", "U+0300", "È">>, <<"E", "U+0301", "É">>, <<"E", "U+0302", "Ê">>,
      <<"E", "U+0303", "U+1EBC">>, <<"E", "U+0304", "U+0112">>,
      <<"E", "U+0308", "Ë">>, <<"E", "U+0327", "U+0228">>,
      <<"G", "U+0301", "U+01F4">>, <<"G", "U+0302", "U+011C">>,
      <<"G", "U+0304", "U+1E20">>, <<"G", "U+0327", "U+0122">>,
      <<"H", "U+0302", "U+0124">>, <<"H", "U+0308", "U+1E26">>,
      <<"H", "U+0327", "U+1E28">>, <<"I", "U+0300", "Ì">>,
      <<"I", "U+0301", "Í">>, <<"I", "U+0302", "Î">>,
      <<"I", "U+0303", "U+0128">>, <<"I", "U+0304", "U+012A">>,
      <<"I", "U+0308", "Ï">>, <<"J", "U+0302", "U+0134">>,
      <<"K", "U+0301", "U+1E30">>, <<"K", "U+0327", "U+0136">>,
      <<"L", "U+0301", "U+0139">>, <<"L", "U+0327", "U+013B">>,
      <<"M", "U+0301", "U+1E3E">>, <<"N", "U+0300", "U+01F8">>,
      <<"N", "U+0301", "U+0143">>, <<"N", "U+0303", "Ñ">>,
      <<"N", "U+0327", "U+0145">>, <<"O", "U+0300", "Ò">>,
      <<"O", "U+0301", "Ó">>, <<"O", "U+0302", "Ô">>, <<"O", "U+0303", "Õ">>,
      <<"O", "U+0304", "U+014C">>, <<"O", "U+0308", "Ö">>,
      <<"P", "U+0301", "U+1E54">>, <<"R", "U+0301", "U+0154">>,
      <<"R", "U+0327", "U+0156">>, <<"S", "U+0301", "U+015A">>,
      <<"S", "U+0302", "U+015C">>, <<"S", "U+0327", "U+015E">>,
      <<"T", "U+0327", "U+0162">>, <<"U", "U+0300", "Ù">>,
      <<"U", "U+0301", "Ú">>, <<"U", "U+0302", "Û">>,
      <<"U", "U+0303", "U+0168">>, <<"U", "U+0304", "U+016A">>,
      <<"U", "U+0308", "Ü">>, <<"U", "U+030A", "U+016E">>,
      <<"V", "U+0303", "U+1E7C">>, <<"W", "U+0300", "U+1E80">>,
      <<"W", "U+0301", "U+1E82">>, <<"W", "U+0302", "U+0174">>,
      <<"W", "U+0308", "U+1E84">>, <<"X", "U+0308", "U+1E8C">>,
      <<"Y", "U+0300", "U+1EF2">>, <<"Y", "U+0301", "Ý">>,
      <<"Y", "U+0302", "U+0176">>, <<"Y", "U+0303", "U+1EF8">>,
      <<"Y", "U+0304", "U+0232">>, <<"Y", "U+0308", "U+0178">>,
      <<"Z", "U+0301", "U+0179">>, <<"Z", "U+0302", "U+1E90">>,
      <<"a", "U+0300", "à">>, <<"a", "U+0301", "á">>, <<"a", "U+0302", "â">>,
      <<"a", "U+0303", "ã">>, <<"a", "U+0304", "U+0101">>,
      <<"a", "U+0308", "ä">>, <<"a", "U+030A", "å">>,
      <<"c", "U+0301", "U+0107">>, <<"c", "U+0302", "U+0109">>,
      <<"c", "U+0327", "ç">>, <<"d", "U+0327", "U+1E11">>,
      <<"e", "U+0300", "è">>, <<"e", "U+0301", "é">>, <<"e", "U+0302", "ê">>,
      <<"e", "U+0303", "U+1EBD">>, <<"e", "U+0304", "U+0113">>,
      <<"e", "U+0308", "ë">>, <<"e", "U+0327", "U+0229">>,
      <<"g", "U+0301", "U+01F5">>, <<"g", "U+0302", "U+011D">>,
      <<"g", "U+0304", "U+1E21">>, <<"g", "U+0327", "U+0123">>,
      <<"h", "U+0302", "U+0125">>, <<"h", "U+0308", "U+1E27">>,
      <<"h", "U+0327", "U+1E29">>, <<"i", "U+0300", "ì">>,
      <<"i", "U+0301", "í">>, <<"i", "U+0302", "î">>,
      <<"i", "U+0303", "U+0129">>, <<"i", "U+0304", "U+012B">>,
      <<"i", "U+0308", "ï">>, <<"j", "U+0302", "U+0135">>,
      <<"k", "U+0301", "U+1E31">>, <<"k", "U+0327", "U+0137">>,
      <<"l", "U+0301", "U+013A">>, <<"l", "U+0327", "U+013C">>,
      <<"m", "U+0301", "U+1E3F">>, <<"n", "U+0300", "U+01F9">>,
      <<"n", "U+0301", "U+0144">>, <<"n", "U+0303", "ñ">>,
      <<"n", "U+0327", "U+0146">>, <<"o", "U+0300", "ò">>,
      <<"o", "U+0301", "ó">>, <<"o", "U+0302", "ô">>, <<"o", "U+0303", "õ">>,
      <<"o", "U+0304", "U+014D">>, <<"o", "U+0308", "ö">>,
      <<"p", "U+0301", "U+1E55">>, <<"r", "U+0301", "U+0155">>,
      <<"r", "U+0327", "U+0157">>, <<"s", "U+0301", "U+015B">>,
      <<"s", "U+0302", "U+015D">>, <<"s", "U+0327", "U+015F">>,
      <<"t", "U+0308", "U+1E97">>, <<"t", "U+0327", "U+0163">>,
      <<"u", "U+0300", "ù">>, <<"u", "U+0301", "ú">>, <<"u", "U+0302", "û">>,
      <<"u", "U+0303", "U+0169">>, <<"u", "U+0304", "U+016B">>,
      <<"u", "U+0308", "ü">>, <<"u", "U+030A", "U+016F">>,
      <<"v", "U+0303", "U+1E7D">>, <<"w", "U+0300", "U+1E81">>,
      <<"w", "U+0301", "U+1E83">>, <<"w", "U+0302", "U+0175">>,
      <<"w", "U+0308", "U+1E85">>, <<"w", "U+030A", "U+1E98">>,
      <<"x", "U+0308", "U+1E8D">>, <<"y", "U+0300", "U+1EF3">>,
      <<"y", "U+0301", "ý">>, <<"y", "U+0302", "U+0177">>,
      <<"y", "U+0303", "U+1EF9">>, <<"y", "U+0304", "U+0233">>,
      <<"y", "U+0308", "ÿ">>, <<"y", "U+030A", "U+1E99">>,
      <<"z", "U+0301", "U+017A">>, <<"z", "U+0302", "U+1E91">>,
      <<"¨", "U+0300", "U+1FED">>, <<"¨", "U+0301", "U+0385">>,
      <<"Â", "U+0300", "U+1EA6">>, <<"Â", "U+0301", "U+1EA4">>,
      <<"Â", "U+0303", "U+1EAA">>, <<"Ä", "U+0304", "U+01DE">>,
      <<"Å", "U+0301", "U+01FA">>, <<"Æ", "U+0301", "U+01FC">>,
      <<"Æ", "U+0304", "U+01E2">>, <<"Ç", "U+0301", "U+1E08">>,
      <<"Ê", "U+0300", "U+1EC0">>, <<"Ê", "U+0301", "U+1EBE">>,
      <<"Ê", "U+0303", "U+1EC4">>, <<"Ï", "U+0301", "U+1E2E">>,
      <<"Ô", "U+0300", "U+1ED2">>, <<"Ô", "U+0301", "U+1ED0">>,
      <<"Ô", "U+0303", "U+1ED6">>, <<"Õ", "U+0301", "U+1E4C">>,
      <<"Õ", "U+0304", "U+022C">>, <<"Õ", "U+0308", "U+1E4E">>,
      <<"Ö", "U+0304", "U+022A">>, <<"Ø", "U+0301", "U+01FE">>,
      <<"Ü", "U+0300", "U+01DB">>, <<"Ü", "U+0301", "U+01D7">>,
      <<"Ü", "U+0304", "U+01D5">>, <<"â", "U+0300", "U+1EA7">>,
      <<"â", "U+0301", "U+1EA5">>, <<"â", "U+0303", "U+1EAB">>,
      <<"ä", "U+0304", "U+01DF">>, <<"å", "U+0301", "U+01FB">>,
      <<"æ", "U+0301", "U+01FD">>, <<"æ", "U+0304", "U+01E3">>,
      <<"ç", "U+0301", "U+1E09">>, <<"ê", "U+0300", "U+1EC1">>,
      <<"ê", "U+0301", "U+1EBF">>, <<"ê", "U+0303", "U+1EC5">>,
      <<"ï", "U+0301", "U+1E2F">>, <<"ô", "U+0300", "U+1ED3">>,
      <<"ô", "U+0301", "U+1ED1">>, <<"ô", "U+0303", "U+1ED7">>,
      <<"õ", "U+0301", "U+1E4D">>, <<"õ", "U+0304", "U+022D">>,
      <<"õ", "U+0308", "U+1E4F">>, <<"ö", "U+0304", "U+022B">>,
      <<"ø", "U+0301", "U+01FF">>, <<"ü", "U+0300", "U+01DC">>,
      <<"ü", "U+0301", "U+01D8">>, <<"ü", "U+0304", "U+01D6">>,
      <<"U+0106", "U+0327", "U+1E08">>, <<"U+0107", "U+0327", "U+1E09">>,
      <<"U+0112", "U+0300", "U+1E14">>, <<"U+0112", "U+0301", "U+1E16">>,
      <<"U+0113", "U+0300", "U+1E15">>, <<"U+0113", "U+0301", "U+1E17">>,
      <<"U+014C", "U+0300", "U+1E50">>, <<"U+014C", "U+0301", "U+1E52">>,
      <<"U+014D", "U+0300", "U+1E51">>, <<"U+014D", "U+0301", "U+1E53">>,
      <<"U+0168", "U+0301", "U+1E78">>, <<"U+0169", "U+0301", "U+1E79">>,
      <<"U+016A", "U+0308", "U+1E7A">>, <<"U+016B", "U+0308", "U+1E7B">>>>
Composes(base, mark) ==
    \E k \in 1..Len(Composition) :
        Composition[k][1] = base /\ Composition[k][2] = mark
Composed(base, mark) ==
    Composition[CHOOSE k \in 1..Len(Composition) :
                   Composition[k][1] = base /\ Composition[k][2] = mark][3]

\* Canonical composition of an ordered string: a mark joins the last
\* character of class 0 before it, at acc[p], when they have a composite and
\* no character between them has a class of the mark's or above.
RECURSIVE NFCFrom(_, _, _, _)
NFCFrom(s, i, acc, p) ==
    IF i > Len(s) THEN acc
    ELSE IF /\ p > 0
            /\ ~(/\ Len(acc) > p
                 /\ CombiningClass(acc[Len(acc)]) >= CombiningClass(s[i]))
            /\ Composes(acc[p], s[i])
         THEN NFCFrom(s, i + 1, [acc EXCEPT ![p] = Composed(acc[p], s[i])], p)
         ELSE NFCFrom(s, i + 1, Append(acc, s[i]),
                      IF CombiningClass(s[i]) = 0 THEN Len(acc) + 1 ELSE p)

\* norm.NFC, on the same characters: the canonical decomposition, the
\* canonical ordering, then the composition
NFC(s) == NFCFrom(CanonicalOrder(NFDFrom(s, 1, <<>>)), 1, <<>>, 0)

\* Matcher.preprocess: the transform chain (NFKD, removal of the marks, NFC),
\* strings.ToLower, the regexp \s+ replaced by one space, strings.TrimSpace
preprocess(str) ==
    TrimSpace(CollapseSpaces(ToLower(NFC(RemoveMarks(NFKD(str))))))

\* The bytes of a character in UTF-8: two from U+0080, three from U+0800.
TwoByteChars ==
    {" ", "¡", "¢", "£", "¤", "¥", "¦", "§", "¨", "©", "ª", "«", "¬", "­",
     "®", "¯", "°", "±", "²", "³", "´", "µ", "¶", "·", "¸", "¹", "º", "»",
     "¼", "½", "¾", "¿", "À", "Á", "Â", "Ã", "Ä", "Å", "Æ", "Ç", "È", "É",
     "Ê", "Ë", "Ì", "Í", "Î", "Ï", "Ð", "Ñ", "Ò", "Ó", "Ô", "Õ", "Ö", "×",
     "Ø", "Ù", "Ú", "Û", "Ü", "Ý", "Þ", "ß", "à", "á", "â", "ã", "ä", "å",
     "æ", "ç", "è", "é", "ê", "ë", "ì", "í", "î", "ï", "ð", "ñ", "ò", "ó",
     "ô", "õ", "ö", "÷", "ø", "ù", "ú", "û", "ü", "ý", "þ", "ÿ"} \cup Marks \cup {"U+0085", "U+03BC"}
ThreeByteChars == {"U+2044"}
Utf8Len(c) == IF c \in TwoByteChars THEN 2 ELSE IF c \in ThreeByteChars THEN 3 ELSE 1

\* len(s) of a string: its bytes
RECURSIVE lenFrom(_, _, _)
lenFrom(s, i, acc) ==
    IF i > Len(s) THEN acc ELSE lenFrom(s, i + 1, acc + Utf8Len(s[i]))
len(s) == lenFrom(s, 1, 0)

\* levenshtein.DefaultOptions: insertion 1, deletion 1, substitution 2
InsCost == 1
DelCost == 1
SubCost == 2

MinOf3(a, b, c) == IF a <= b /\ a <= c THEN a ELSE IF b <= c THEN b ELSE c

\* One row of the edit-distance matrix from the row above it; the row built
\* so far holds the entries of columns 0..Len(row)-1.
RECURSIVE RowFrom(_, _, _, _)
RowFrom(prev, ch, b, row) ==
    IF Len(row) > Len(b) THEN row
    ELSE LET j == Len(row) IN
         RowFrom(prev, ch, b,
                 Append(row,
                        MinOf3(prev[j + 1] + DelCost,
                               row[j] + InsCost,
                               prev[j] + (IF ch = b[j] THEN 0 ELSE SubCost))))

RECURSIVE DistanceFrom(_, _, _, _)
DistanceFrom(a, b, i, prev) ==
    IF i > Len(a) THEN prev[Len(b) + 1]
    ELSE DistanceFrom(a, b, i + 1, RowFrom(prev, a[i], b, <<prev[1] + DelCost>>))

\* levenshtein.DistanceForStrings(a, b, DefaultOptions)
DistanceForStrings(a, b) ==
    DistanceFrom(a, b, 1, [j \in 1..(Len(b) + 1) |-> (j - 1) * InsCost])

\* A ratio is the fraction num/den (den > 0).
One == [num |-> 1, den |-> 1]
Zero == [num |-> 0, den |-> 1]
RatioGreater(x, y) == x.num * y.den > y.num * x.den
RatioAtLeast(x, y) == x.num * y.den >= y.num * x.den

\* Matcher.ratio: 1.0 - distance/maxLen
ratio(a, b) ==
    IF a = b THEN One
    ELSE IF a = <<>> \/ b = <<>> THEN Zero
    ELSE LET maxLen == IF len(b) > len(a) THEN len(b) ELSE len(a)
         IN  [num |-> maxLen - DistanceForStrings(a, b), den |-> maxLen]

\* Matcher.ratioWithTruncation, for a one-character separator
ratioWithTruncation(expected, actual, separator) ==
    LET expectedWords == Fields(expected)
        actualParts == Split(actual, separator)
    IN  IF Len(expectedWords) = 0 THEN Zero
        ELSE IF Len(actualParts) <= Len(expectedWords) THEN ratio(expected, actual)
        ELSE ratio(expected,
                   TrimSpace(Join(SubSeq(actualParts,
                                         Len(actualParts) - Len(expectedWords) + 1,
                                         Len(actualParts)),
                                  <<" ">>)))

RECURSIVE MaxRatioFrom(_, _, _)
MaxRatioFrom(ratios, k, max) ==
    IF k > Len(ratios) THEN max
    ELSE MaxRatioFrom(ratios, k + 1,
                      IF RatioGreater(ratios[k], max) THEN ratios[k] ELSE max)

\* Matcher.calculateBestRatio
calculateBestRatioDirect(expected, actual) ==
    ratio(preprocess(expected), preprocess(actual))
calculateBestRatio(expected, actual) ==
    LET expectedNorm == preprocess(expected)
        actualNorm == preprocess(actual)
    IN  MaxRatioFrom(<< ratio(expectedNorm, actualNorm),
                        ratioWithTruncation(expectedNorm, actualNorm, " "),
                        ratioWithTruncation(expectedNorm, actualNorm, "_"),
                        ratioWithTruncation(expectedNorm, actualNorm, "-") >>,
                     1, Zero)

\* The best ratio of one expected track over the files.
bestRatio(expected, actualFiles) ==
    MaxRatioFrom([k \in 1..Len(actualFiles) |->
                     calculateBestRatio(expected, ExtractFilename(actualFiles[k]))],
                 1, Zero)

\* Matcher.MatchTracksDebug: whether the directory matches
MatchTracksDebug(expectedTracks, actualFiles, minRatio) ==
    IF Len(expectedTracks) = 0 \/ Len(actualFiles) = 0 THEN FALSE
    ELSE IF Len(actualFiles) < Len(expectedTracks) THEN FALSE
    ELSE Cardinality({k \in 1..Len(expectedTracks) :
                        RatioAtLeast(bestRatio(expectedTracks[k], actualFiles), minRatio)})
            = Len(expectedTracks)

(***************************************************************************)
(* Part 4: Processor.searchAndQueueDownloads and Processor.searchForAlbum  *)
(*                                                                         *)
(* The loop over the wanted albums (title blacklist, denylist, release     *)
(* choice, track fetch, search, bookkeeping) and, inside it, one search:   *)
(* the search request, the polling of its state, the single fetch of the   *)
(* results, the scan of the results peer by peer and, for each peer, the   *)
(* range over the map of its directories, in whatever order the runtime    *)
(* yields them, up to the first successful enqueue.                        *)
(***************************************************************************)
\* Longest album list, longest search response.
MaxAlbums == 2
MaxPeers == 2

\* cfg.Timing.SearchWaitSeconds
SearchWaitSeconds == 1

\* pollInterval := 500 * time.Millisecond
SearchPollMillis == 500

maxWaitTime == SearchWaitSeconds * 1000

\* cfg.Search
EnableSearchDenylist == FALSE
MaxSearchFailures == 3
TitleBlacklist == << <<"l", "i", "v", "e">> >>
IgnoredUsers == << <<"b", "a", "d">> >>
AllowedFiletypes == << Flac, <<"m", "p", "3", " ", "3", "2", "0">> >>
MinimumFilenameMatchRatio == [num |-> 4, den |-> 5]

\* The albums the lists are made of: one that carries its releases, one
\* whose releases are fetched on demand, one with a blacklisted title.
OneRelease == << [ID |-> 1, TrackCount |-> 2, Status |-> Official] >>
TwoReleases == << [ID |-> 1, TrackCount |-> 10, Status |-> Official],
                  [ID |-> 2, TrackCount |-> 12, Status |-> Official] >>
AlbumCatalog ==
    << [ID |-> 1, Title |-> <<"A", "b">>, ArtistName |-> <<"X">>,
        Releases |-> OneRelease],
       [ID |-> 2, Title |-> <<"C", "d">>, ArtistName |-> <<"Y">>,
        Releases |-> <<>>],
       [ID |-> 3, Title |-> <<"A", "b", " ", "L", "i", "v", "e">>,
        ArtistName |-> <<"X">>, Releases |-> OneRelease] >>

\* Album lists: the albums of a list are distinct.
AlbumLists ==
    UNION {{[k \in 1..n |-> AlbumCatalog[f[k]]] :
                f \in {g \in [1..n -> 1..Len(AlbumCatalog)] :
                         \A i, j \in 1..n : i # j => g[i] # g[j]}} :
           n \in 0..MaxAlbums}

\* The release lists GetAlbum answers with during a pass over the albums.
FetchedReleases == {<<>>, TwoReleases}

\* What GetTracks answers with: the two tracks of the album, or none.
AlbumTracks ==
    << [Title |-> <<"A", "b">>, MediumNumber |-> 1],
       [Title |-> <<"C", "d">>, MediumNumber |-> 2] >>
TrackResponses == {AlbumTracks, <<>>}

\* The denylist as loaded at start: empty, album 1 at the limit, album 2
\* one failure short of it.
DenylistsAtStart ==
    { <<>>,
      [id \in {1} |-> MaxSearchFailures],
      [id \in {2} |-> MaxSearchFailures - 1] }

\* Search states GetSearchState reports.
SearchStates ==
    { <<"I", "n", "P", "r", "o", "g", "r", "e", "s", "s">>,
      Completed,
      StTimedOut,
      <<"R", "e", "q", "u", "e", "s", "t", "e", "d">> }

\* Files of a search response; slskd spells paths with backslashes.
DirA == <<"Music", "\\", "A">>
DirB == <<"Music", "\\", "B">>
SearchFile(dir, name, ext, size, bitRate) ==
    [ Filename |-> dir \o <<"\\">> \o name \o <<".">> \o ext,
      Size |-> size,
      BitRate |-> bitRate,
      SampleRate |-> Nil,
      BitDepth |-> Nil ]

\* The peers a response is made of.
PeerGood ==
    [ Username |-> <<"u", "1">>,
      Files |-> << SearchFile(DirA, <<"a", "b">>, Flac, 11, Nil),
                   SearchFile(DirA, <<"c">>, Jpg, 12, Nil),
                   SearchFile(DirA, <<"c", "d">>, Flac, 13, Nil) >> ]
PeerTwoDirs ==
    [ Username |-> <<"u", "2">>,
      Files |-> << SearchFile(DirA, <<"a", "b">>, Flac, 21, Nil),
                   SearchFile(DirB, <<"A", "B">>, Flac, 22, Nil),
                   SearchFile(DirB, <<"C", "D">>, Mp3, 23, 320),
                   SearchFile(DirA, <<"c", "d">>, Flac, 24, Nil) >> ]
PeerPartial ==
    [ Username |-> <<"u", "3">>,
      Files |-> << SearchFile(DirA, <<"a", "b">>, Flac, 31, Nil),
                   SearchFile(DirB, <<"a", "b">>, Flac, 32, Nil),
                   SearchFile(DirB, <<"x", "y">>, Flac, 33, Nil) >> ]
PeerIgnored ==
    [ Username |-> <<"B", "a", "d">>,
      Files |-> << SearchFile(DirA, <<"a", "b">>, Flac, 41, Nil),
                   SearchFile(DirA, <<"c", "d">>, Flac, 42, Nil) >> ]
PeerLossy ==
    [ Username |-> <<"u", "5">>,
      Files |-> << SearchFile(DirA, <<"a", "b">>, Mp3, 51, 128),
                   SearchFile(DirA, <<"c", "d">>, Mp3, 52, Nil) >> ]

PeerCatalog == <<PeerGood, PeerTwoDirs, PeerPartial, PeerIgnored, PeerLossy>>

\* The responses to one search: up to MaxPeers peers of the catalog.
Responses ==
    UNION {[1..n -> {PeerCatalog[k] : k \in 1..Len(PeerCatalog)}] :
              n \in 0..MaxPeers}

\* The responses drawn from during a pass over several albums.
BriefResponses ==
    { <<>>, <<PeerGood>>, <<PeerPartial>>, <<PeerTwoDirs>>, <<PeerLossy, PeerGood>> }

\* The title blacklist check of searchAndQueueDownloads
isBlacklisted(title) ==
    \E k \in 1..Len(TitleBlacklist) :
        Contains(ToLower(title), ToLower(TitleBlacklist[k]))

\* Denylist.IsDenylisted
IsDenylistedAbove(entries, albumID, maxFailures) ==
    albumID \in DOMAIN entries /\ entries[albumID] > maxFailures
IsDenylisted(entries, albumID, maxFailures) ==
    IF albumID \notin DOMAIN entries THEN FALSE
    ELSE entries[albumID] >= maxFailures

\* Denylist.RecordAttempt
RecordAttemptOnlySuccess(entries, albumID, success) ==
    IF success
    THEN [id \in DOMAIN entries \ {albumID} |-> entries[id]]
    ELSE entries
RecordAttempt(entries, albumID, success) ==
    IF success
    THEN [id \in DOMAIN entries \ {albumID} |-> entries[id]]
    ELSE [id \in DOMAIN entries \cup {albumID} |->
            IF id = albumID
            THEN (IF albumID \in DOMAIN entries THEN entries[albumID] ELSE 0) + 1
            ELSE entries[id]]

\* chooseRelease as one call: the on-demand fetch and the selection.
chooseRelease(alb, fetched) ==
    IF Len(alb.Releases) = 0
    THEN {[err |-> "fetch album", value |-> NilRelease]}
            \cup UNION {releaseOutcomes(rs) : rs \in fetched}
    ELSE releaseOutcomes(alb.Releases)

\* The ignored-users check of searchForAlbum
isIgnored(username) ==
    \E k \in 1..Len(IgnoredUsers) : EqualFold(username, IgnoredUsers[k])

\* filepath.Dir and filepath.Base of the normalized path of a file
dirOf(file) == FilepathDir(NormalizeSlashes(file.Filename))
baseOf(file) == FilepathBase(NormalizeSlashes(file.Filename))

\* The filtered files that lie in a directory, in their order.
filesIn(filteredFiles, dir) == SelectSeq(filteredFiles, LAMBDA f : dirOf(f) = dir)

\* dirFiles: directory -> file names, grouped from the filtered files
dirFilesOf(filteredFiles) ==
    [dir \in {dirOf(filteredFiles[k]) : k \in 1..Len(filteredFiles)} |->
        [k \in 1..Len(filesIn(filteredFiles, dir)) |->
            baseOf(filesIn(filteredFiles, dir)[k])]]

\* enqueueFiles: original path and size of the filtered files of the directory
enqueueFilesOf(filteredFiles, dir) ==
    [k \in 1..Len(filesIn(filteredFiles, dir)) |->
        [Filename |-> filesIn(filteredFiles, dir)[k].Filename,
         Size |-> filesIn(filteredFiles, dir)[k].Size]]

\* expectedTracks: the track titles
expectedTracksOf(trks) == [k \in 1..Len(trks) |-> trks[k].Title]

\* The medium numbers the lookup can give a file: the medium of a lowercased
\* title contained in the lowercased name without extension (of the first
\* such title the range over trackMediums yields), 1 when there is none.
mediumNumbers(filename, trks) ==
    LET name == ToLower(ExtractFilename(filename))
        titles == {ToLower(trks[k].Title) : k \in 1..Len(trks)}
        mediumOf(t) ==
            trks[CHOOSE k \in 1..Len(trks) :
                    /\ ToLower(trks[k].Title) = t
                    /\ \A j \in 1..Len(trks) : ToLower(trks[j].Title) = t => j <= k
                ].MediumNumber
        hits == {t \in titles : Contains(name, t)}
    IN  IF hits = {} THEN {1} ELSE {mediumOf(t) : t \in hits}

\* item.Tracks: one track per filtered file of the directory
itemTracks(filteredFiles, dir, trks) ==
    LET sel == filesIn(filteredFiles, dir)
        mediums == {1} \cup {trks[k].MediumNumber : k \in 1..Len(trks)}
    IN  {[k \in 1..Len(sel) |-> [Filename |-> baseOf(sel[k]), MediumNumber |-> m[k]]] :
            m \in {g \in [1..Len(sel) -> mediums] :
                     \A k \in 1..Len(sel) : g[k] \in mediumNumbers(baseOf(sel[k]), trks)}}

\* The DownloadedItem built after a successful enqueue
DownloadedItem(alb, username, dir, trackList) ==
    [ ArtistName |-> alb.ArtistName,
      AlbumName |-> alb.Title,
      AlbumID |-> alb.ID,
      FolderName |-> FilepathBase(dir),
      Username |-> username,
      Directory |-> dir,
      Tracks |-> trackList ]

\* The filter, the grouping and the match computed once for each peer of the
\* catalog (and each track list): the same computations, looked up by peer.
PeerSet == {PeerCatalog[k] : k \in 1..Len(PeerCatalog)}
filteredFilesOfPeer == [p \in PeerSet |-> FilterFiles(p.Files, AllowedFiletypes)]
dirFilesOfPeer == [p \in PeerSet |-> dirFilesOf(filteredFilesOfPeer[p])]
matchedOfPeer ==
    [p \in PeerSet |->
        [t \in TrackResponses |->
            [dir \in DOMAIN dirFilesOfPeer[p] |->
                MatchTracksDebug(expectedTracksOf(t), dirFilesOfPeer[p][dir],
                                 MinimumFilenameMatchRatio)]]]

QueueInit ==
    /\ MonitorIdle
    /\ ReleaseIdle
    /\ AroundIdle
    /\ sPc = "album"
    /\ albums \in AlbumLists
    /\ ai = 1
    /\ queuedList = <<>>
    /\ failedCount = 0
    /\ denylist \in DenylistsAtStart
    /\ chosen = NoRelease
    /\ tracks = <<>>
    /\ searchElapsed = 0
    /\ searchState = NoState
    /\ results = <<>>
    /\ ri = 1
    /\ dirsLeft = {}
    /\ found = FALSE
    /\ newItem = NoItem
    /\ calls = <<>>
    /\ fate = [i \in 1..Len(albums) |-> "todo"]

\* The locals of one album's iteration, as they are before it starts.
AlbumLocalsReset ==
    /\ chosen' = NoRelease
    /\ tracks' = <<>>
    /\ searchElapsed' = 0
    /\ searchState' = NoState
    /\ results' = <<>>
    /\ ri' = 1
    /\ dirsLeft' = {}
    /\ found' = FALSE
    /\ newItem' = NoItem

\* An iteration that ends the whole loop on a failure.
AlbumFailsAborts ==
    /\ denylist' = RecordAttempt(denylist, albums[ai].ID, FALSE)
    /\ failedCount' = failedCount + 1
    /\ fate' = [fate EXCEPT ![ai] = "failed"]
    /\ ai' = Len(albums) + 1
    /\ sPc' = "album"
    /\ AlbumLocalsReset
    /\ calls' = <<>>
    /\ UNCHANGED <<albums, queuedList>>

\* The album's iteration ends in a failure: RecordAttempt(album.ID, false),
\* failedCount++, continue.
AlbumFails ==
    /\ denylist' = RecordAttempt(denylist, albums[ai].ID, FALSE)
    /\ failedCount' = failedCount + 1
    /\ fate' = [fate EXCEPT ![ai] = "failed"]
    /\ ai' = ai + 1
    /\ sPc' = "album"
    /\ AlbumLocalsReset
    /\ calls' = <<>>
    /\ UNCHANGED <<albums, queuedList>>

\* The head of the loop body: the title blacklist and the denylist.
BeginAlbum ==
    /\ sPc = "album"
    /\ ai <= Len(albums)
    /\ IF isBlacklisted(albums[ai].Title)
       THEN /\ fate' = [fate EXCEPT ![ai] = "blacklisted"]
            /\ ai' = ai + 1
            /\ UNCHANGED sPc
       ELSE IF IsDenylisted(denylist, albums[ai].ID, MaxSearchFailures)
       THEN /\ fate' = [fate EXCEPT ![ai] = "denylisted"]
            /\ ai' = ai + 1
            /\ UNCHANGED sPc
       ELSE /\ sPc' = "release"
            /\ UNCHANGED <<fate, ai>>
    /\ calls' = <<>>
    /\ UNCHANGED <<albums, queuedList, failedCount, denylist, chosen, tracks,
                   searchElapsed, searchState, results, ri, dirsLeft, found, newItem>>
    /\ UNCHANGED outsideQueue

\* release, err := p.chooseRelease(ctx, album)
ChooseRelease ==
    /\ sPc = "release"
    /\ \E r \in chooseRelease(albums[ai], FetchedReleases) :
         IF r.err # "nil"
         THEN AlbumFails
         ELSE /\ chosen' = r
              /\ sPc' = "tracks"
              /\ UNCHANGED <<albums, ai, queuedList, failedCount, denylist, tracks,
                             searchElapsed, searchState, results, ri, dirsLeft,
                             found, newItem, calls, fate>>
    /\ UNCHANGED outsideQueue

\* tracks, err := p.lidarr.GetTracks(ctx, album.ID, nil)
GetTracks ==
    /\ sPc = "tracks"
    /\ \/ AlbumFails
       \/ \E t \in TrackResponses :
            /\ tracks' = t
            /\ sPc' = "search"
            /\ UNCHANGED <<albums, ai, queuedList, failedCount, denylist, chosen,
                           searchElapsed, searchState, results, ri, dirsLeft,
                           found, newItem, calls, fate>>
    /\ UNCHANGED outsideQueue

\* searchForAlbum returns DownloadedItem{}, false.
ReturnNotFound ==
    /\ found' = FALSE
    /\ newItem' = NoItem
    /\ sPc' = "return"

\* searchResp, err := p.slskd.Search(ctx, searchReq); startTime := time.Now()
Search ==
    /\ sPc = "search"
    /\ \/ ReturnNotFound
       \/ /\ sPc' = "poll"
          /\ UNCHANGED <<found, newItem>>
    /\ searchElapsed' = 0
    /\ UNCHANGED <<albums, ai, queuedList, failedCount, denylist, chosen, tracks,
                   searchState, results, ri, dirsLeft, calls, fate>>
    /\ UNCHANGED outsideQueue

\* The three exits of the polling loop: a failed state poll, a state that
\* starts with "Completed", the wait time used up.
pollingEndsUnlessFailed(st, sinceStart) ==
    \/ (~st.err /\ HasPrefix(st.State, Completed))
    \/ (~st.err /\ sinceStart >= maxWaitTime)
pollingEnds(st, sinceStart) ==
    \/ st.err
    \/ HasPrefix(st.State, Completed)
    \/ sinceStart >= maxWaitTime

\* time.Since(startTime) as the wait-time check can read it, in milliseconds
\* counted in whole poll intervals (maxWaitTime is a whole number of them, so
\* the time is at or above it exactly when the count is). e counts the sleeps
\* made so far; the requests and the sleeps' overshoot take a time without
\* bound: the check can read any time from the slept one on. The check tells
\* no two times from maxWaitTime on apart, so they are all read as the first
\* of them.
SinceSearch(e) ==
    {e} \cup ({e + d * SearchPollMillis : d \in 0..(maxWaitTime \div SearchPollMillis)}
                 \cap (0..maxWaitTime))

\* One iteration of the polling loop: GetSearchState, the exits, the sleep of
\* pollInterval.
PollState ==
    /\ sPc = "poll"
    /\ \E st \in {[err |-> TRUE, State |-> <<>>]}
                    \cup {[err |-> FALSE, State |-> x] : x \in SearchStates},
          now \in SinceSearch(searchElapsed) :
         /\ searchState' = st
         /\ IF pollingEnds(st, now)
            THEN /\ sPc' = "results"
                 /\ searchElapsed' = now
            ELSE /\ searchElapsed' = now + SearchPollMillis
                 /\ UNCHANGED sPc
    /\ UNCHANGED <<albums, ai, queuedList, failedCount, denylist, chosen, tracks,
                   results, ri, dirsLeft, found, newItem, calls, fate>>
    /\ UNCHANGED outsideQueue

\* results, err := p.slskd.GetSearchResults(ctx, searchResp.ID), answered
\* from the given responses. The polling loop's clock reading and state are
\* not looked at again.
GetSearchResultsFrom(responses) ==
    /\ sPc = "results"
    /\ \/ /\ ReturnNotFound
          /\ UNCHANGED <<results, ri>>
       \/ \E resp \in responses :
            /\ results' = resp
            /\ ri' = 1
            /\ IF Len(resp) = 0
               THEN ReturnNotFound
               ELSE /\ sPc' = "peer"
                    /\ UNCHANGED <<found, newItem>>
    /\ searchElapsed' = 0
    /\ searchState' = NoState
    /\ UNCHANGED <<albums, ai, queuedList, failedCount, denylist, chosen, tracks,
                   dirsLeft, calls, fate>>
    /\ UNCHANGED outsideQueue

GetSearchResults == GetSearchResultsFrom(Responses)
GetSearchResultsBrief == GetSearchResultsFrom(BriefResponses)

\* The head of the loop over the results: past the last result the function
\* returns not found; an ignored user or a peer without a file that passes
\* the filter is skipped; otherwise the filtered files are grouped by
\* directory and the range over the directories starts.
ScanResult ==
    /\ sPc = "peer"
    /\ IF ri > Len(results)
       THEN /\ ReturnNotFound
            /\ UNCHANGED <<ri, dirsLeft>>
       ELSE LET peer == results[ri]
                filteredFiles == filteredFilesOfPeer[peer]
            IN  IF isIgnored(peer.Username) \/ Len(filteredFiles) = 0
                THEN /\ ri' = ri + 1
                     /\ UNCHANGED <<sPc, dirsLeft, found, newItem>>
                ELSE /\ dirsLeft' = DOMAIN dirFilesOfPeer[peer]
                     /\ sPc' = "dirs"
                     /\ UNCHANGED <<ri, found, newItem>>
    /\ UNCHANGED <<albums, ai, queuedList, failedCount, denylist, chosen, tracks,
                   searchElapsed, searchState, results, calls, fate>>
    /\ UNCHANGED outsideQueue

\* if err := p.slskd.EnqueueDownloads(...); err != nil { warn; continue }
continuesAfterEnqueueNever(ok) == FALSE
continuesAfterEnqueue(ok) == ~ok

\* One iteration of the range over dirFiles: the match of the directory's
\* files against the expected tracks and, on a match, the enqueue request;
\* after a successful request the item is built and returned, otherwise the
\* range goes on, and past the last directory the scan moves to the next peer.
CheckDirectory ==
    /\ sPc = "dirs"
    /\ \E dir \in dirsLeft :
         LET peer == results[ri]
             filteredFiles == filteredFilesOfPeer[peer]
             matched == matchedOfPeer[peer][tracks][dir]
             rest == dirsLeft \ {dir}
             Continue ==
                 /\ dirsLeft' = rest
                 /\ IF rest = {}
                    THEN ri' = ri + 1 /\ sPc' = "peer"
                    ELSE UNCHANGED <<ri, sPc>>
                 /\ UNCHANGED <<found, newItem>>
         IN  IF ~matched
             THEN Continue /\ UNCHANGED calls
             ELSE \E ok \in BOOLEAN :
                    /\ calls' = Append(calls,
                                       [ri |-> ri, Username |-> peer.Username,
                                        Directory |-> dir,
                                        Files |-> enqueueFilesOf(filteredFiles, dir),
                                        ok |-> ok])
                    /\ IF continuesAfterEnqueue(ok)
                       THEN Continue
                       ELSE \E trackList \in itemTracks(filteredFiles, dir, tracks) :
                              /\ found' = TRUE
                              /\ newItem' = DownloadedItem(albums[ai], peer.Username,
                                                           dir, trackList)
                              /\ sPc' = "return"
                              /\ UNCHANGED <<ri, dirsLeft>>
    /\ UNCHANGED <<albums, ai, queuedList, failedCount, denylist, chosen, tracks,
                   searchElapsed, searchState, results, fate>>
    /\ UNCHANGED outsideQueue

\* After searchForAlbum returned: the item is appended and the success
\* recorded, or the failure is recorded and counted.
AlbumDone ==
    /\ sPc = "return"
    /\ IF found
       THEN /\ queuedList' = Append(queuedList, newItem)
            /\ denylist' = RecordAttempt(denylist, albums[ai].ID, TRUE)
            /\ fate' = [fate EXCEPT ![ai] = "queued"]
            /\ ai' = ai + 1
            /\ sPc' = "album"
            /\ AlbumLocalsReset
            /\ calls' = <<>>
            /\ UNCHANGED <<albums, failedCount>>
       ELSE AlbumFails
    /\ UNCHANGED outsideQueue

\* return downloadList, failedCount
Finish ==
    /\ sPc = "album"
    /\ ai > Len(albums)
    /\ sPc' = "done"
    /\ UNCHANGED <<albums, ai, queuedList, failedCount, denylist, chosen, tracks,
                   searchElapsed, searchState, results, ri, dirsLeft, found,
                   newItem, calls, fate>>
    /\ UNCHANGED outsideQueue

QueueNext ==
    \/ BeginAlbum \/ ChooseRelease \/ GetTracks
    \/ Search \/ PollState \/ GetSearchResultsBrief \/ ScanResult \/ CheckDirectory
    \/ AlbumDone \/ Finish

QueueSpec == QueueInit /\ [][QueueNext]_vars

\* One call of searchForAlbum, for the first album of the catalog.
SearchInit ==
    /\ MonitorIdle
    /\ ReleaseIdle
    /\ AroundIdle
    /\ sPc = "search"
    /\ albums = <<AlbumCatalog[1]>>
    /\ ai = 1
    /\ queuedList = <<>>
    /\ failedCount = 0
    /\ denylist = <<>>
    /\ chosen \in releaseOutcomes(AlbumCatalog[1].Releases)
    /\ tracks \in TrackResponses
    /\ searchElapsed = 0
    /\ searchState = NoState
    /\ results = <<>>
    /\ ri = 1
    /\ dirsLeft = {}
    /\ found = FALSE
    /\ newItem = NoItem
    /\ calls = <<>>
    /\ fate = <<"todo">>

SearchNext == Search \/ PollState \/ GetSearchResults \/ ScanResult \/ CheckDirectory

SearchSpec == SearchInit /\ [][SearchNext]_vars

\* Every remote call returns and every sleep ends.
SearchFairSpec == SearchInit /\ [][SearchNext]_vars /\ WF_vars(SearchNext)


\* ---------------------------------------------------------------------------
\* Claims about searchAndQueueDownloads and searchForAlbum
\* ---------------------------------------------------------------------------

\* The positions in calls of the enqueue requests that succeeded.
SucceededCalls == {k \in 1..Len(calls) : calls[k].ok}

\* C13: searchForAlbum returns found = true exactly when one EnqueueDownloads
\* call succeeded; that call is the last one made for the album and the item
\* names its peer and directory; a matching group whose request fails gives no
\* item and the scan goes on; once the function has returned no further
\* request is made for the album, and the list returned holds at most one
\* item per album.
C13_OneItemPerAlbum ==
    /\ [](sPc = "return"
            => /\ found <=> (SucceededCalls # {})
               /\ found => /\ SucceededCalls = {Len(calls)}
                           /\ newItem.Username = calls[Len(calls)].Username
                           /\ newItem.Directory = calls[Len(calls)].Directory
                           /\ newItem.AlbumID = albums[ai].ID)
    /\ [](sPc \in {"peer", "dirs"} => SucceededCalls = {} /\ ~found)
    /\ [](\A i, j \in 1..Len(queuedList) :
            i # j => queuedList[i].AlbumID # queuedList[j].AlbumID)
    /\ [][/\ (Len(calls') > Len(calls))
               => /\ sPc = "dirs"
                  /\ calls' = Append(calls, calls'[Len(calls')])
                  /\ IF calls'[Len(calls')].ok
                     THEN sPc' = "return" /\ found'
                     ELSE sPc' \in {"peer", "dirs"} /\ ~found'
                  /\ queuedList' = queuedList
          /\ (Len(queuedList') > Len(queuedList))
               => /\ sPc = "return" /\ found
                  /\ queuedList' = Append(queuedList, newItem)
                  /\ ai' = ai + 1]_vars

\* A request for one directory failed, the scan went on, and the request for
\* the next matching directory succeeded, for the second album of the list.
C13_Witness ==
    /\ sPc = "return"
    /\ found
    /\ Len(calls) = 2
    /\ ~calls[1].ok
    /\ calls[2].ok
    /\ Len(queuedList) = 1


\* The place of a directory in a peer's part of the response: the position of
\* the first of the peer's filtered files that lies in it.
FirstAppearance(peer, dir) ==
    MinOf({k \in 1..Len(filteredFilesOfPeer[peer]) :
             dirOf(filteredFilesOfPeer[peer][k]) = dir})

\* The candidate groups of the response that satisfy the matcher, as pairs of
\* the peer's position and the directory.
SatisfyingGroups ==
    {g \in UNION {{<<r, dir>> : dir \in DOMAIN dirFilesOfPeer[results[r]]} :
                    r \in {q \in 1..Len(results) : ~isIgnored(results[q].Username)}} :
        matchedOfPeer[results[g[1]]][tracks][g[2]]}

\* Peer order, then directory order of the response.
GroupBefore(g, h) ==
    \/ g[1] < h[1]
    \/ /\ g[1] = h[1]
       /\ FirstAppearance(results[g[1]], g[2]) < FirstAppearance(results[h[1]], h[2])

\* C14: the first enqueue request of a call of searchForAlbum names the first
\* satisfying group of the response in peer order and then directory order,
\* so the response fixes the (peer, directory) that is chosen.
C14_FirstGroupInResponseOrder ==
    calls # <<>>
        => LET g == <<calls[1].ri, calls[1].Directory>>
           IN  /\ g \in SatisfyingGroups
               /\ \A h \in SatisfyingGroups : h = g \/ GroupBefore(g, h)


\* The files of a peer's response that pass the quality filter and lie in
\* the directory.
PassedInDirectory(peer, dir) ==
    {peer.Files[k] : k \in {j \in 1..Len(peer.Files) :
                              /\ FileMatches(peer.Files[j], AllowedFiletypes)
                              /\ dirOf(peer.Files[j]) = dir}}

\* C15: every file named in an enqueue request is a file of the requested
\* peer that passed the quality filter and lies in the requested directory,
\* and the tracks of the item returned are the files of the request that
\* succeeded, one track per file.
C15_OnlyFilteredFilesOfDirectory ==
    /\ \A k \in 1..Len(calls) :
         LET c == calls[k]
             peer == results[c.ri]
         IN  /\ c.Username = peer.Username
             /\ c.Files # <<>>
             /\ \A j \in 1..Len(c.Files) :
                  \E f \in PassedInDirectory(peer, c.Directory) :
                     f.Filename = c.Files[j].Filename /\ f.Size = c.Files[j].Size
    /\ (sPc = "return" /\ found)
         => LET c == calls[Len(calls)]
            IN  /\ newItem.Username = c.Username
                /\ newItem.Directory = c.Directory
                /\ Len(newItem.Tracks) = Len(c.Files)
                /\ {newItem.Tracks[j].Filename : j \in 1..Len(newItem.Tracks)}
                     = {FilepathBase(NormalizeSlashes(c.Files[j].Filename)) :
                          j \in 1..Len(c.Files)}

\* An item was returned for a directory that also holds a file the filter
\* rejected: three files in the peer's directory, two in the request.
C15_Witness ==
    /\ sPc = "return"
    /\ found
    /\ Len(newItem.Tracks) = 2
    /\ Len(calls[Len(calls)].Files) = 2
    /\ \E k \in 1..Len(results[calls[Len(calls)].ri].Files) :
         LET f == results[calls[Len(calls)].ri].Files[k]
         IN  dirOf(f) = newItem.Directory /\ ~FileMatches(f, AllowedFiletypes)


\* The failures recorded for an album in a denylist.
FailuresOf(entries, albumID) ==
    IF albumID \in DOMAIN entries THEN entries[albumID] ELSE 0

\* No directory of a peer that is not ignored holds filtered files that
\* satisfy the matcher.
NoGroupSatisfies == SatisfyingGroups = {}

\* C16: when no group of the results satisfies the matcher, searchForAlbum
\* makes no enqueue request and returns not found; after a return of not
\* found searchAndQueueDownloads adds no item, counts one more failed album
\* and records one more failure for this album and for no other.
C16_NoMatchFailsAlbum ==
    /\ [](sPc = "return" /\ NoGroupSatisfies => calls = <<>> /\ ~found)
    /\ [](sPc \in {"peer", "dirs"} /\ NoGroupSatisfies => calls = <<>>)
    /\ [][(sPc = "return" /\ ~found)
            => /\ queuedList' = queuedList
               /\ failedCount' = failedCount + 1
               /\ fate' = [fate EXCEPT ![ai] = "failed"]
               /\ \A id \in DOMAIN denylist \cup DOMAIN denylist' \cup {albums[ai].ID} :
                    FailuresOf(denylist', id)
                      = FailuresOf(denylist, id) + (IF id = albums[ai].ID THEN 1 ELSE 0)
               /\ ai' = ai + 1]_vars

\* The results of the second album's search hold a peer that is not ignored
\* and has filtered files, none of its directories matches, and the search of
\* the first album failed before.
C16_Witness ==
    /\ sPc = "return"
    /\ ~found
    /\ calls = <<>>
    /\ \E r \in 1..Len(results) :
         /\ ~isIgnored(results[r].Username)
         /\ dirFilesOfPeer[results[r]] # <<>>
    /\ NoGroupSatisfies
    /\ ai = 2
    /\ failedCount = 1
    /\ FailuresOf(denylist, albums[1].ID) >= 1


\* The albums of the input list with the given outcome.
AlbumsWith(outcomes) == {i \in 1..Len(albums) : fate[i] \in outcomes}

\* C17: a failure of one album does not end the loop over the albums: each
\* failure moves on to the next album, the albums before the current one
\* all have their outcome, and on return every input album is exactly one of
\* skipped (blacklisted or denylisted), failed or queued, the list returned
\* holds the queued albums in input order, the count returned is the number
\* of failed albums, and queued + failed + skipped is the number of albums.
C17_FailuresIsolated ==
    /\ [](sPc # "idle"
            => /\ \A i \in 1..Len(albums) : (fate[i] # "todo") <=> (i < ai)
               /\ ai <= Len(albums) + 1
               /\ Len(queuedList) = Cardinality(AlbumsWith({"queued"}))
               /\ failedCount = Cardinality(AlbumsWith({"failed"})))
    /\ [](sPc = "done"
            => /\ ai = Len(albums) + 1
               /\ \A i \in 1..Len(albums) :
                    fate[i] \in {"blacklisted", "denylisted", "failed", "queued"}
               /\ Len(queuedList) + failedCount
                    + Cardinality(AlbumsWith({"blacklisted", "denylisted"}))
                    = Len(albums)
               /\ \E pos \in [1..Len(queuedList) -> AlbumsWith({"queued"})] :
                    /\ \A j \in 1..Len(queuedList) :
                         queuedList[j].AlbumID = albums[pos[j]].ID
                    /\ \A j, k \in 1..Len(queuedList) : j < k => pos[j] < pos[k])
    /\ [][/\ (failedCount' # failedCount)
               => /\ sPc \in {"release", "tracks", "return"}
                  /\ sPc' = "album"
                  /\ ai' = ai + 1
                  /\ fate' = [fate EXCEPT ![ai] = "failed"]
          /\ (sPc' = "done") => (sPc = "album" /\ ai > Len(albums))]_vars

\* The run returned after its first album failed and its second album was
\* queued.
C17_Witness ==
    /\ sPc = "done"
    /\ Len(albums) = 2
    /\ fate = <<"failed", "queued">>
    /\ failedCount = 1
    /\ Len(queuedList) = 1
    /\ queuedList[1].AlbumID = albums[2].ID


\* C20: after the search was issued the state is polled; the polling goes on,
\* at least one poll interval later, exactly while the poll succeeded, the
\* state does not start with "Completed" and the wait time had not elapsed
\* when the poll was answered; whichever
\* condition ends it, the results are then fetched, and they are fetched once:
\* the fetch is reached only from the polling loop and is followed by the
\* scan of the results or the return; the polling loop always ends.
C20_PollThenFetchOnce ==
    /\ [][/\ (sPc = "poll")
               => /\ sPc' \in {"poll", "results"}
                  /\ (sPc' = "results")
                       => \/ searchState'.err
                          \/ HasPrefix(searchState'.State, Completed)
                          \/ searchElapsed' >= maxWaitTime
                  /\ (sPc' = "poll")
                       => /\ ~searchState'.err
                          /\ ~HasPrefix(searchState'.State, Completed)
                          /\ searchElapsed' - SearchPollMillis < maxWaitTime
                          /\ searchElapsed' >= searchElapsed + SearchPollMillis
                  /\ results' = results /\ calls' = calls
          /\ (sPc' = "poll") => sPc \in {"search", "poll"}
          /\ (sPc' = "results") => sPc = "poll"
          /\ (sPc = "results") => sPc' \in {"peer", "return"}
          /\ (results' # results) => sPc = "results"]_vars
    /\ [](sPc = "poll" => searchElapsed <= maxWaitTime)
    /\ (sPc = "poll") ~> (sPc = "results")
    /\ (sPc = "results") ~> (sPc \in {"peer", "return"})

\* The polling was ended by the wait time: the last poll succeeded and the
\* state it reported does not start with "Completed".
C20_Witness ==
    /\ sPc = "results"
    /\ ~searchState.err
    /\ ~HasPrefix(searchState.State, Completed)
    /\ searchElapsed >= maxWaitTime


(***************************************************************************)
(* Part 5. LockFile: Acquire and Release of concurrent instances on one    *)
(* path. os.OpenFile with O_CREATE opens the file the path names or        *)
(* creates one; flock locks the open file, whatever the path names later;  *)
(* os.Remove unlinks whatever the path names at that moment.               *)
(***************************************************************************)
MaxInstances == 2
MaxInodes == 2

Instances == 1..MaxInstances
Inodes == 1..MaxInodes

LockInit ==
    /\ MonitorIdle
    /\ PhaseIdle
    /\ ReleaseIdle
    /\ QueueIdle
    /\ DenyIdle
    /\ PageIdle
    /\ MainIdle
    /\ CallIdle
    /\ lfPc = [i \in Instances |-> "idle"]
    /\ lfFd = [i \in Instances |-> 0]
    /\ lfErr = [i \in Instances |-> "none"]
    /\ lockPath = 0
    /\ flocks = [n \in Inodes |-> 0]
    /\ inodesMade = 0

\* f, err := os.OpenFile(lf.path, os.O_CREATE|os.O_RDWR, 0644)
OpenFile(i) ==
    /\ lfPc[i] = "idle"
    /\ \/ /\ lfErr' = [lfErr EXCEPT ![i] = "open"]
          /\ UNCHANGED <<lfPc, lfFd, lockPath, inodesMade>>
       \/ /\ lockPath # 0
          /\ lfFd' = [lfFd EXCEPT ![i] = lockPath]
          /\ lfPc' = [lfPc EXCEPT ![i] = "opened"]
          /\ lfErr' = [lfErr EXCEPT ![i] = "none"]
          /\ UNCHANGED <<lockPath, inodesMade>>
       \/ /\ lockPath = 0
          /\ inodesMade < MaxInodes
          /\ inodesMade' = inodesMade + 1
          /\ lockPath' = inodesMade + 1
          /\ lfFd' = [lfFd EXCEPT ![i] = inodesMade + 1]
          /\ lfPc' = [lfPc EXCEPT ![i] = "opened"]
          /\ lfErr' = [lfErr EXCEPT ![i] = "none"]
    /\ UNCHANGED flocks
    /\ UNCHANGED outsideLock

\* Whether LOCK_EX|LOCK_NB is granted on the inode: no open file holds it.
flockGranted(n) == flocks[n] = 0

\* syscall.Flock(int(f.Fd()), syscall.LOCK_EX|syscall.LOCK_NB); on an error
\* the file is closed and Acquire returns the error: EWOULDBLOCK while another
\* open file holds the lock, and any other error the system call may give.
Flock(i) ==
    /\ lfPc[i] = "opened"
    /\ \/ /\ flockGranted(lfFd[i])
          /\ flocks' = [flocks EXCEPT ![lfFd[i]] = i]
          /\ lfPc' = [lfPc EXCEPT ![i] = "locked"]
          /\ UNCHANGED <<lfFd, lfErr>>
       \/ /\ ~flockGranted(lfFd[i])
          /\ lfFd' = [lfFd EXCEPT ![i] = 0]
          /\ lfPc' = [lfPc EXCEPT ![i] = "idle"]
          /\ lfErr' = [lfErr EXCEPT ![i] = "busy"]
          /\ UNCHANGED flocks
       \/ /\ lfFd' = [lfFd EXCEPT ![i] = 0]
          /\ lfPc' = [lfPc EXCEPT ![i] = "idle"]
          /\ lfErr' = [lfErr EXCEPT ![i] = "acquire"]
          /\ UNCHANGED flocks
    /\ UNCHANGED <<lockPath, inodesMade>>
    /\ UNCHANGED outsideLock

\* f.WriteString(pid): on an error the file is closed, which drops its flock,
\* and Acquire returns the error; otherwise lf.file = f and Acquire returns nil.
WritePid(i) ==
    /\ lfPc[i] = "locked"
    /\ \/ /\ lfPc' = [lfPc EXCEPT ![i] = "held"]
          /\ lfErr' = [lfErr EXCEPT ![i] = "nil"]
          /\ UNCHANGED <<lfFd, flocks>>
       \/ /\ flocks' = [flocks EXCEPT ![lfFd[i]] = 0]
          /\ lfFd' = [lfFd EXCEPT ![i] = 0]
          /\ lfPc' = [lfPc EXCEPT ![i] = "idle"]
          /\ lfErr' = [lfErr EXCEPT ![i] = "write"]
    /\ UNCHANGED <<lockPath, inodesMade>>
    /\ UNCHANGED outsideLock

\* Release, lf.file != nil: syscall.Flock(int(lf.file.Fd()), syscall.LOCK_UN);
\* on an error Release returns it and lf.file stays as it was. On a file that
\* an earlier Release closed the call can only fail.
Unlock(i) ==
    /\ lfPc[i] \in {"held", "stale"}
    /\ \/ /\ lfPc[i] = "held"
          /\ flocks' = [flocks EXCEPT ![lfFd[i]] = 0]
          /\ lfPc' = [lfPc EXCEPT ![i] = "unlocked"]
          /\ UNCHANGED lfErr
       \/ /\ lfErr' = [lfErr EXCEPT ![i] = "unlock"]
          /\ UNCHANGED <<lfPc, flocks>>
    /\ UNCHANGED <<lfFd, lockPath, inodesMade>>
    /\ UNCHANGED outsideLock

\* lf.file.Close(); on an error Release returns it: the file is closed and
\* lf.file still names it.
CloseFile(i) ==
    /\ lfPc[i] = "unlocked"
    /\ \/ /\ lfPc' = [lfPc EXCEPT ![i] = "closed"]
          /\ UNCHANGED lfErr
       \/ /\ lfPc' = [lfPc EXCEPT ![i] = "stale"]
          /\ lfErr' = [lfErr EXCEPT ![i] = "close"]
    /\ UNCHANGED <<lfFd, lockPath, flocks, inodesMade>>
    /\ UNCHANGED outsideLock

\* os.Remove(lf.path), a missing file being no error; lf.file = nil. On
\* another error Release returns it and lf.file still names the closed file.
RemoveFile(i) ==
    /\ lfPc[i] = "closed"
    /\ \/ /\ lockPath' = 0
          /\ lfFd' = [lfFd EXCEPT ![i] = 0]
          /\ lfPc' = [lfPc EXCEPT ![i] = "idle"]
          /\ UNCHANGED lfErr
       \/ /\ lfPc' = [lfPc EXCEPT ![i] = "stale"]
          /\ lfErr' = [lfErr EXCEPT ![i] = "remove"]
          /\ UNCHANGED <<lfFd, lockPath>>
    /\ UNCHANGED <<flocks, inodesMade>>
    /\ UNCHANGED outsideLock

LockNext ==
    \E i \in Instances :
        \/ OpenFile(i) \/ Flock(i) \/ WritePid(i)
        \/ Unlock(i) \/ CloseFile(i) \/ RemoveFile(i)

LockSpec == LockInit /\ [][LockNext]_vars

\* The instances whose Acquire returned nil and whose Release has not begun.
Holders == {i \in Instances : lfPc[i] = "held"}

\* C21: at any time at most one LockFile instance holds the lock on the
\* path, and an Acquire succeeds only while no other instance holds it.
C21_AtMostOneHolder ==
    /\ [](Cardinality(Holders) <= 1)
    /\ [][\A i \in Instances :
            (lfPc[i] = "opened" /\ lfPc'[i] = "locked") => Holders \ {i} = {}]_vars


(***************************************************************************)
(* Part 6. The Denylist object and its file. The file is the JSON object   *)
(* json.MarshalIndent writes for the entries map: one member per entry, in *)
(* the order of the key strings, the numbers in decimal.                   *)
(***************************************************************************)
MaxAttempts == 3

\* Album ids whose keys sort differently as strings and as numbers.
AlbumIDs == {2, 10}

\* strconv.Itoa, for numbers that are not negative
RECURSIVE ItoaFrom(_, _)
ItoaFrom(n, acc) ==
    IF n < 10 THEN <<Digits[n + 1]>> \o acc
    ELSE ItoaFrom(n \div 10, <<Digits[(n % 10) + 1]>> \o acc)
ItoaReversed(n) ==
    LET s == ItoaFrom(n, <<>>) IN [k \in 1..Len(s) |-> s[Len(s) + 1 - k]]
Itoa(n) == ItoaFrom(n, <<>>)

\* The order of two different key strings in the marshalled object.
KeyBefore(a, b) ==
    \E k \in 1..(Len(a) + 1) :
        /\ k <= Len(b)
        /\ \A j \in 1..(k - 1) : a[j] = b[j]
        /\ k = Len(a) + 1 \/ DigitValue(a[k]) < DigitValue(b[k])

\* json.MarshalIndent(d.entries, "", "  ")
marshalEntries(entries) ==
    LET ids == DOMAIN entries
        order == CHOOSE o \in [1..Cardinality(ids) -> ids] :
                    \A i, j \in 1..Cardinality(ids) :
                        i < j => KeyBefore(Itoa(o[i]), Itoa(o[j]))
    IN  [k \in 1..Cardinality(ids) |->
            [key |-> Itoa(order[k]),
             album_id |-> Itoa(order[k]),
             failures |-> Itoa(entries[order[k]])]]

\* json.Unmarshal(data, &d.entries): the entry of an album is the member
\* whose key is the album's id in decimal.
unmarshalEntries(data) ==
    LET idOf(k) == Atoi(data[k].key).value
    IN  [id \in {idOf(k) : k \in 1..Len(data)} |->
            Atoi(data[CHOOSE k \in 1..Len(data) : idOf(k) = id].failures).value]

\* Denylist.Load on an object with the given entries: os.ReadFile, whose
\* error is returned (the file is missing, or the read fails), then
\* json.Unmarshal into the entries map, which keeps the entries whose keys
\* the file does not have.
DenylistLoad(entries, file, readOk) ==
    IF ~file.exists THEN [entries |-> entries, err |-> "notexist"]
    ELSE IF ~readOk THEN [entries |-> entries, err |-> "read"]
    ELSE LET read == unmarshalEntries(file.data)
         IN  [entries |-> [id \in DOMAIN read \cup DOMAIN entries |->
                              IF id \in DOMAIN read THEN read[id] ELSE entries[id]],
              err |-> "nil"]

\* NewDenylist: empty entries, then Load, a missing file being no error.
NewDenylist(file, readOk) ==
    LET loaded == DenylistLoad(<<>>, file, readOk)
    IN  IF loaded.err \notin {"nil", "notexist"}
        THEN [ok |-> FALSE, entries |-> <<>>, err |-> "load"]
        ELSE [ok |-> TRUE, entries |-> loaded.entries, err |-> "nil"]

\* The latest NewDenylist returned a Denylist.
DenylistLive == dnErr # "load"

\* The entries of a new Denylist on a file that can be read.
loadedEntries(file) == NewDenylist(file, TRUE).entries

\* The files a denylist directory can hold at the start: none, or one that an
\* earlier run saved.
DenylistFiles ==
    {NoFile, [exists |-> TRUE, data |-> marshalEntries([id \in {10} |-> 2])]}

DenyInit ==
    /\ MonitorIdle
    /\ PhaseIdle
    /\ ReleaseIdle
    /\ QueueIdle
    /\ LockIdle
    /\ PageIdle
    /\ MainIdle
    /\ CallIdle
    /\ dnFile \in DenylistFiles
    /\ dnEntries = loadedEntries(dnFile)
    /\ dnLoaded = dnEntries
    /\ dnHistory = <<>>
    /\ dnTemps = 0
    /\ dnSaved = NoSave
    /\ dnErr = "none"
    /\ runPc = "idle"
    /\ runErr = "none"
    /\ runQueued = 0

\* d.RecordAttempt(albumID, success)
RecordAttemptCall ==
    /\ DenylistLive
    /\ Len(dnHistory) < MaxAttempts
    /\ \E id \in AlbumIDs, success \in BOOLEAN :
         /\ (~success /\ id \in DOMAIN dnEntries) => dnEntries[id] < MaxAttempts
         /\ dnEntries' = RecordAttempt(dnEntries, id, success)
         /\ dnHistory' = Append(dnHistory, [id |-> id, success |-> success])
    /\ UNCHANGED <<dnLoaded, dnFile, dnTemps, dnSaved, dnErr, runPc, runErr, runQueued>>
    /\ UNCHANGED outsideDeny

\* The ways Save can end: without error, or with the error of one of its steps.
SaveOutcomes == {"ok", "mkdir", "create", "write", "close", "rename"}

\* Whether Save leaves its temporary file in the directory: the file exists
\* once os.CreateTemp succeeded, the failure branches remove it and the
\* rename moves it to the denylist's path.
saveLeavesTemp(outcome) ==
    LET created == outcome \notin {"mkdir", "create"}
        removed == outcome \in {"write", "close", "rename"}
        renamed == outcome = "ok"
    IN  created /\ ~removed /\ ~renamed

\* d.Save()
Save(outcome) ==
    /\ dnFile' = IF outcome = "ok"
                 THEN [exists |-> TRUE, data |-> marshalEntries(dnEntries)]
                 ELSE dnFile
    /\ dnTemps' = dnTemps + (IF saveLeavesTemp(outcome) THEN 1 ELSE 0)
    /\ dnSaved' = [outcome |-> IF outcome = "ok" THEN "ok" ELSE "failed",
                    entries |-> dnEntries]

SaveCall ==
    /\ DenylistLive
    /\ \E outcome \in SaveOutcomes : Save(outcome)
    /\ UNCHANGED <<dnEntries, dnLoaded, dnHistory, dnErr, runPc, runErr, runQueued>>
    /\ UNCHANGED outsideDeny

\* NewDenylist(filePath) on the same path: what it returns takes the place of
\* the live object, a Denylist or, with an error, none. After a Save without
\* error a new Denylist is the one loaded from that Save's file.
NewDenylistCall ==
    /\ \E readOk \in BOOLEAN :
         LET made == NewDenylist(dnFile, readOk) IN
           /\ dnErr' = made.err
           /\ dnEntries' = made.entries
           /\ dnLoaded' = made.entries
           /\ dnSaved' = [dnSaved EXCEPT
                            !.outcome = IF @ \in {"ok", "loaded"}
                                        THEN (IF made.ok THEN "loaded" ELSE "ok")
                                        ELSE @]
    /\ dnHistory' = <<>>
    /\ UNCHANGED <<dnFile, dnTemps, runPc, runErr, runQueued>>
    /\ UNCHANGED outsideDeny

\* d.Load() on the live object. After a Load without error the attempts are
\* counted on top of the entries it left.
LoadCall ==
    /\ DenylistLive
    /\ \E readOk \in BOOLEAN :
         LET loaded == DenylistLoad(dnEntries, dnFile, readOk) IN
           /\ dnErr' = loaded.err
           /\ dnEntries' = loaded.entries
           /\ IF loaded.err = "nil"
              THEN /\ dnLoaded' = loaded.entries
                   /\ dnHistory' = <<>>
                   /\ dnSaved' = [dnSaved EXCEPT
                                    !.outcome = IF @ = "loaded" THEN "ok" ELSE @]
              ELSE UNCHANGED <<dnLoaded, dnHistory, dnSaved>>
    /\ UNCHANGED <<dnFile, dnTemps, runPc, runErr, runQueued>>
    /\ UNCHANGED outsideDeny

DenyNext == RecordAttemptCall \/ SaveCall \/ NewDenylistCall \/ LoadCall

DenySpec == DenyInit /\ [][DenyNext]_vars

\* The calls for an album in the history, as positions.
CallsFor(id) == {k \in 1..Len(dnHistory) : dnHistory[k].id = id}
LastSuccess(id) ==
    LET S == {k \in CallsFor(id) : dnHistory[k].success}
    IN  IF S = {} THEN 0 ELSE CHOOSE k \in S : \A j \in S : j <= k
FailedSince(id) ==
    Cardinality({k \in CallsFor(id) : k > LastSuccess(id) /\ ~dnHistory[k].success})

\* C22: the failure count stored for an album is the number of its failed
\* attempts since its latest successful attempt, or since the object was
\* created (on top of the count it was created with); after a successful
\* attempt with no later failure the album has no entry; IsDenylisted(id, max)
\* is true exactly when the album has an entry with a count of at least max.
C22_CountsFailuresSinceSuccess ==
    \A id \in AlbumIDs :
        LET expected == FailedSince(id)
                          + (IF LastSuccess(id) = 0 THEN FailuresOf(dnLoaded, id) ELSE 0)
        IN  /\ FailuresOf(dnEntries, id) = expected
            /\ (id \in DOMAIN dnEntries) <=> (expected > 0)
            /\ (LastSuccess(id) # 0 /\ FailedSince(id) = 0) => id \notin DOMAIN dnEntries
            /\ \A max \in 0..(MaxAttempts + 3) :
                 IsDenylisted(dnEntries, id, max)
                   <=> (id \in DOMAIN dnEntries /\ dnEntries[id] >= max)

\* An album loaded with two failures: a failure, a success and one more
\* failure. The count is 1, the album is denylisted for a limit of 1 and not
\* for a limit of 2.
C22_Witness ==
    /\ FailuresOf(dnLoaded, 10) = 2
    /\ Len(dnHistory) = 3
    /\ \A k \in 1..3 : dnHistory[k].id = 10 /\ (dnHistory[k].success <=> (k = 2))
    /\ dnEntries[10] = 1
    /\ IsDenylisted(dnEntries, 10, 1)
    /\ ~IsDenylisted(dnEntries, 10, 2)


\* The album the loop of searchAndQueueDownloads is at has an entry with at
\* least MaxSearchFailures failures.
AtDenylistedAlbum ==
    /\ sPc = "album"
    /\ ai <= Len(albums)
    /\ albums[ai].ID \in DOMAIN denylist
    /\ denylist[albums[ai].ID] >= MaxSearchFailures

\* C23: an album that is denylisted when the loop reaches it is skipped in
\* one step that goes on to the next album: no release or track fetch, no
\* search and no enqueue request is made for it, the denylist is left as it
\* is, and nothing is added to the queued list or to the failed count.
C23_DenylistedSkipped ==
    [][AtDenylistedAlbum
         => /\ sPc' = "album"
            /\ ai' = ai + 1
            /\ fate'[ai] \in {"denylisted", "blacklisted"}
            /\ denylist' = denylist
            /\ queuedList' = queuedList
            /\ failedCount' = failedCount
            /\ calls' = <<>> /\ results' = results /\ tracks' = tracks
            /\ chosen' = chosen]_vars

\* The run is over; its first album was denylisted and skipped, its entry is
\* as it was, and the second album was attempted.
C23_Witness ==
    /\ sPc = "done"
    /\ Len(albums) = 2
    /\ fate[1] = "denylisted"
    /\ FailuresOf(denylist, albums[1].ID) = MaxSearchFailures
    /\ fate[2] \in {"failed", "queued"}
    /\ Len(queuedList) + failedCount = 1

\* Run is called again on the same Processor, as runDaemon does: the next
\* pass of searchAndQueueDownloads goes over a newly fetched list of albums
\* with the Denylist object the passes before it wrote to.
NextPass ==
    /\ sPc = "done"
    /\ sPc' = "album"
    /\ albums' \in AlbumLists
    /\ ai' = 1
    /\ queuedList' = <<>>
    /\ failedCount' = 0
    /\ calls' = <<>>
    /\ fate' = [i \in 1..Len(albums') |-> "todo"]
    /\ UNCHANGED <<denylist, chosen, tracks, searchElapsed, searchState, results,
                   ri, dirsLeft, found, newItem>>
    /\ UNCHANGED outsideQueue

PassesNext == QueueNext \/ NextPass

PassesSpec == QueueInit /\ [][PassesNext]_vars

\* C36: with max_search_failures fixed, a failure count that starts at or
\* below it never exceeds it, and an entry that has reached it is left as it
\* is by every later step of every later pass: the album is skipped, its
\* count is not incremented and its entry is not removed.
C36_DenylistingPermanent ==
    /\ [](\A id \in DOMAIN denylist : denylist[id] <= MaxSearchFailures)
    /\ [][\A id \in DOMAIN denylist :
            denylist[id] >= MaxSearchFailures
                => /\ id \in DOMAIN denylist'
                   /\ denylist'[id] = denylist[id]
                   /\ \A k \in 1..Len(albums) :
                        (albums[k].ID = id /\ fate[k] = "todo" /\ albums' = albums)
                            => fate'[k] \in {"todo", "denylisted", "blacklisted"}]_vars

\* Album 2, which started below the limit, reached it in one pass and was
\* skipped in a later pass in which another album was attempted.
C36_Witness ==
    /\ sPc = "done"
    /\ 2 \in DOMAIN denylist
    /\ denylist[2] = MaxSearchFailures
    /\ \E k \in 1..Len(albums) : albums[k].ID = 2 /\ fate[k] = "denylisted"
    /\ \E k \in 1..Len(albums) : fate[k] \in {"failed", "queued"}

\* C39: denylist skipping applies only when enable_search_denylist is set:
\* with the option false no album is skipped by searchAndQueueDownloads
\* because of its recorded failure count.
C39_NoSkipWhenDisabled ==
    ~EnableSearchDenylist
        => \A k \in 1..Len(fate) : fate[k] # "denylisted"




(***************************************************************************)
(* Processor.Run around the denylist: the phases of one run, each with the *)
(* ways it can end; searchAndQueueDownloads is the sequence of its         *)
(* RecordAttempt calls, one for each album it attempts.                    *)
(***************************************************************************)
RunInit ==
    /\ MonitorIdle
    /\ PhaseIdle
    /\ ReleaseIdle
    /\ QueueIdle
    /\ LockIdle
    /\ PageIdle
    /\ MainIdle
    /\ CallIdle
    /\ dnFile \in DenylistFiles
    /\ dnEntries = loadedEntries(dnFile)
    /\ dnLoaded = dnEntries
    /\ dnHistory = <<>>
    /\ dnTemps = 0
    /\ dnSaved = NoSave
    /\ dnErr = "none"
    /\ runPc = "fetch"
    /\ runErr = "none"
    /\ runQueued = 0

\* Run returns.
RunReturns(e) ==
    /\ runPc' = "returned"
    /\ runErr' = e

\* Phase 1: fetchWantedAlbums fails, finds no album, or finds some.
FetchWanted ==
    /\ runPc = "fetch"
    /\ \/ RunReturns("error")
       \/ RunReturns("nil")
       \/ runPc' = "search" /\ UNCHANGED runErr
    /\ UNCHANGED <<dnEntries, dnLoaded, dnHistory, dnFile, dnTemps, dnSaved, dnErr, runQueued>>
    /\ UNCHANGED outsideDeny

\* Phase 2, one album of searchAndQueueDownloads that is attempted: it is
\* queued and its success recorded, or its failure is recorded.
AttemptAlbum ==
    /\ runPc = "search"
    /\ \E id \in AlbumIDs \ {dnHistory[k].id : k \in 1..Len(dnHistory)}, success \in BOOLEAN :
         /\ dnEntries' = RecordAttempt(dnEntries, id, success)
         /\ dnHistory' = Append(dnHistory, [id |-> id, success |-> success])
         /\ runQueued' = runQueued + (IF success THEN 1 ELSE 0)
    /\ UNCHANGED <<dnLoaded, dnFile, dnTemps, dnSaved, dnErr, runPc, runErr>>
    /\ UNCHANGED outsideDeny

\* searchAndQueueDownloads returned: with an empty downloadList Run returns nil.
SearchReturned ==
    /\ runPc = "search"
    /\ IF runQueued = 0
       THEN RunReturns("nil")
       ELSE runPc' = "monitor" /\ UNCHANGED runErr
    /\ UNCHANGED <<dnEntries, dnLoaded, dnHistory, dnFile, dnTemps, dnSaved, dnErr, runQueued>>
    /\ UNCHANGED outsideDeny

\* Phases 3 to 5: monitorDownloads, organizeDownloads and triggerImport each
\* return an error, which Run returns, or the run goes on to save its state.
MonitorOrganizeImport ==
    /\ runPc = "monitor"
    /\ \/ RunReturns("error")
       \/ runPc' = "save" /\ UNCHANGED runErr
    /\ UNCHANGED <<dnEntries, dnLoaded, dnHistory, dnFile, dnTemps, dnSaved, dnErr, runQueued>>
    /\ UNCHANGED outsideDeny

\* Phase 6: p.denylist.Save(), whose error is logged; Run returns nil.
SaveState ==
    /\ runPc = "save"
    /\ \E outcome \in SaveOutcomes : Save(outcome)
    /\ RunReturns("nil")
    /\ UNCHANGED <<dnEntries, dnLoaded, dnHistory, dnErr, runQueued>>
    /\ UNCHANGED outsideDeny

RunNext ==
    \/ FetchWanted \/ AttemptAlbum \/ SearchReturned
    \/ MonitorOrganizeImport \/ SaveState

RunSpec == RunInit /\ [][RunNext]_vars

\* C24: when Run has returned without error, the denylist file holds every
\* attempt recorded during the run: a new Denylist loaded from it has the
\* entries of the one in memory.
C24_AttemptsPersisted ==
    (runPc = "returned" /\ runErr = "nil") => loadedEntries(dnFile) = dnEntries


\* Two denylists hold the same album ids with the same failure counts.
SameEntries(a, b) ==
    /\ DOMAIN a = DOMAIN b
    /\ \A id \in DOMAIN a : a[id] = b[id]

\* C25: after a Save without error the file holds the entries that were
\* saved, a new Denylist created on the same path has the same album ids with
\* the same failure counts, and no Save, failed or not, leaves a temporary
\* file in the directory.
C25_SaveLoadRoundTrip ==
    /\ dnTemps = 0
    /\ dnSaved.outcome = "ok"
         => /\ dnFile.exists
            /\ SameEntries(loadedEntries(dnFile), dnSaved.entries)
            /\ \A id \in DOMAIN dnSaved.entries :
                 \E k \in 1..Len(dnFile.data) : dnFile.data[k].key = Itoa(id)
    /\ (dnSaved.outcome = "loaded" /\ dnHistory = <<>>)
         => SameEntries(dnEntries, dnSaved.entries)

\* A denylist with two albums, whose keys sort as strings in the file, was
\* saved and a new Denylist was created from the file.
C25_Witness ==
    /\ dnSaved.outcome = "loaded"
    /\ dnHistory = <<>>
    /\ DOMAIN dnEntries = {2, 10}
    /\ dnEntries[2] = 1
    /\ dnEntries[10] = 3
    /\ dnFile.data[1].key = <<"1", "0">>
    /\ dnFile.data[2].key = <<"2">>


(***************************************************************************)
(* Part 7. The PageTracker and its file, which holds the page number in    *)
(* decimal. saveAtomic has the steps of Denylist.Save.                     *)
(***************************************************************************)
MaxPages == 3

DefaultPages == {1, 2}

\* The page files a tracker can find: none, an empty one, one with a number,
\* one with something else.
PageFiles ==
    {NoFile,
     [exists |-> TRUE, data |-> <<>>],
     [exists |-> TRUE, data |-> <<"3", "\n">>],
     [exists |-> TRUE, data |-> <<"3", "a">>]}

\* PageTracker.Load on a tracker at the given page: os.ReadFile, whose error
\* is returned (the file is missing, or the read fails); a file that is empty
\* once trimmed keeps the page; otherwise strconv.Atoi, whose error is
\* returned, gives the page.
PageTrackerLoad(current, file, readOk) ==
    IF ~file.exists THEN [current |-> current, err |-> "notexist"]
    ELSE IF ~readOk THEN [current |-> current, err |-> "read"]
    ELSE LET content == TrimSpace(file.data)
         IN  IF content = <<>> THEN [current |-> current, err |-> "nil"]
             ELSE IF ~Atoi(content).ok THEN [current |-> current, err |-> "parse"]
             ELSE [current |-> Atoi(content).value, err |-> "nil"]

\* NewPageTracker: current = defaultPage, then Load, a missing file being no
\* error; any other error of Load and no tracker is returned.
NewPageTracker(file, defaultPage, readOk) ==
    LET loaded == PageTrackerLoad(defaultPage, file, readOk)
    IN  IF loaded.err \notin {"nil", "notexist"}
        THEN [ok |-> FALSE, current |-> 0, err |-> "load"]
        ELSE [ok |-> TRUE, current |-> loaded.current, err |-> "nil"]

\* The latest NewPageTracker returned a tracker.
PageTrackerLive == ptErr # "load"

\* pt.current++; if pt.current > totalPages { pt.current = 1 }
nextPageNoWrap(current, totalPages) == current + 1
nextPage(current, totalPages) ==
    IF current + 1 > totalPages THEN 1 ELSE current + 1

PageInit ==
    /\ MonitorIdle
    /\ PhaseIdle
    /\ ReleaseIdle
    /\ QueueIdle
    /\ LockIdle
    /\ DenyIdle
    /\ MainIdle
    /\ CallIdle
    /\ ptFile \in PageFiles
    /\ \E d \in DefaultPages :
         /\ ptCurrent = NewPageTracker(ptFile, d, TRUE).current
         /\ ptErr = NewPageTracker(ptFile, d, TRUE).err
    /\ ptTemps = 0
    /\ ptLast = NoNext

\* pt.Next(totalPages), with saveAtomic ending in one of its ways
NextCall ==
    /\ PageTrackerLive
    /\ \E totalPages \in 0..MaxPages, outcome \in SaveOutcomes :
         /\ ptCurrent' = nextPage(ptCurrent, totalPages)
         /\ ptFile' = IF outcome = "ok"
                      THEN [exists |-> TRUE, data |-> Itoa(ptCurrent')]
                      ELSE ptFile
         /\ ptTemps' = ptTemps + (IF saveLeavesTemp(outcome) THEN 1 ELSE 0)
         /\ ptLast' = [before |-> ptCurrent, totalPages |-> totalPages,
                       outcome |-> IF outcome = "ok" THEN "ok" ELSE "failed"]
    /\ UNCHANGED ptErr
    /\ UNCHANGED outsidePage

\* How the latest Next call stands once the page was read from the file
\* again: after a save without error the file holds that call's page, after
\* a failed save it may hold an older one.
afterLoad(outcome) ==
    IF outcome \in {"ok", "loaded"} THEN "loaded"
    ELSE IF outcome \in {"failed", "stale"} THEN "stale"
    ELSE "none"

\* NewPageTracker(filePath, defaultPage) on the same file: what it returns
\* takes the place of the live object, a tracker or, with an error, none.
NewPageTrackerCall ==
    /\ \E d \in DefaultPages, readOk \in BOOLEAN :
         LET made == NewPageTracker(ptFile, d, readOk) IN
           /\ ptCurrent' = made.current
           /\ ptErr' = made.err
           /\ ptLast' = IF made.ok
                        THEN [ptLast EXCEPT !.outcome = afterLoad(@)]
                        ELSE NoNext
    /\ UNCHANGED <<ptFile, ptTemps>>
    /\ UNCHANGED outsidePage

\* pt.Load() on the live tracker
PageLoadCall ==
    /\ PageTrackerLive
    /\ \E readOk \in BOOLEAN :
         LET loaded == PageTrackerLoad(ptCurrent, ptFile, readOk) IN
           /\ ptCurrent' = loaded.current
           /\ ptErr' = loaded.err
           /\ ptLast' = IF loaded.err = "nil"
                        THEN [ptLast EXCEPT !.outcome = afterLoad(@)]
                        ELSE ptLast
    /\ UNCHANGED <<ptFile, ptTemps>>
    /\ UNCHANGED outsidePage

PageNext == NextCall \/ NewPageTrackerCall \/ PageLoadCall

PageSpec == PageInit /\ [][PageNext]_vars

\* The page the latest Next call had to set.
PageAfterLast ==
    IF ptLast.before + 1 <= ptLast.totalPages THEN ptLast.before + 1 ELSE 1

\* C26: Next(totalPages) sets the page to current + 1 when that is at most
\* totalPages and to 1 otherwise; when it returns no error the page file
\* holds exactly the decimal digits of the new page, and a new PageTracker
\* created on the file has that page as its current page.
C26_NextPage ==
    /\ ptLast.outcome \in {"ok", "failed"} => ptCurrent = PageAfterLast
    /\ ptLast.outcome = "ok"
         => /\ ptFile.exists
            /\ IsDigits(ptFile.data)
            /\ DigitsValue(ptFile.data, 1, 0) = PageAfterLast
            /\ (Len(ptFile.data) > 1 => ptFile.data[1] # "0")
    /\ ptLast.outcome = "loaded" => ptCurrent = PageAfterLast
    /\ ptTemps = 0

\* A Next call on the last page wrapped around to page 1, and a new
\* PageTracker created on the file is at page 1.
C26_Witness ==
    /\ ptLast.outcome = "loaded"
    /\ ptLast.before = 3
    /\ ptLast.totalPages = 3
    /\ ptCurrent = 1
    /\ ptFile.data = <<"1">>

\* The page lies between 1 and max(1, totalPages) of the latest Next call.
WithinReported(page) ==
    /\ 1 <= page
    /\ page <= (IF ptLast.totalPages > 1 THEN ptLast.totalPages ELSE 1)

\* C38 as stated: for a page that was at least 1, after every Next call the
\* stored page lies between 1 and max(1, totalPages) of that call, so that
\* whichever tracker the next run reads its page from, the live one or a new
\* one created on the file, the page is not beyond the pages reported.
C38_PageWithinReported ==
    (ptLast.outcome # "none" /\ ptLast.before >= 1) => WithinReported(ptCurrent)

\* C38, amended: for a page that was at least 1, after every Next call the
\* tracker's own page lies between 1 and max(1, totalPages) of that call;
\* when Next returned no error the page file holds that page, and a tracker
\* created on the file is within the same range.
C38_TrackerPageWithinReported ==
    /\ (ptLast.outcome \in {"ok", "failed", "loaded"} /\ ptLast.before >= 1)
         => WithinReported(ptCurrent)
    /\ (ptLast.outcome = "ok" /\ ptLast.before >= 1)
         => \A d \in DefaultPages :
              /\ NewPageTracker(ptFile, d, TRUE).ok
              /\ WithinReported(NewPageTracker(ptFile, d, TRUE).current)

\* The response reported fewer pages than the page the tracker was at; Next
\* wrapped to page 1 and its save failed.
C38_Witness ==
    /\ ptLast.outcome = "failed"
    /\ ptLast.before > ptLast.totalPages
    /\ ptLast.totalPages >= 1
    /\ ptCurrent = 1



(***************************************************************************)
(* Part 8. The process around Processor.Run: run hands over to runOnce or  *)
(* runDaemon; proc.Run runs in a goroutine of its own; when run returns,   *)
(* its deferred calls release the lock file and the process exits.         *)
(***************************************************************************)
MaxRuns == 3

MainInit ==
    /\ MonitorIdle
    /\ PhaseIdle
    /\ ReleaseIdle
    /\ QueueIdle
    /\ LockIdle
    /\ DenyIdle
    /\ PageIdle
    /\ CallIdle
    /\ mMode \in {"once", "daemon"}
    /\ mPc = "start"
    /\ mRun = "none"
    /\ mActive = 0
    /\ mToken = IF mMode = "daemon" THEN 1 ELSE 0
    /\ mSkipped = 0
    /\ mResult = "none"
    /\ mCtx = FALSE
    /\ mSig = FALSE
    /\ mRuns = 0
    /\ mExit = 0 - 1

\* signal.Notify delivers os.Interrupt or SIGTERM into sigChan.
SignalArrives ==
    /\ mPc \notin {"idle", "returned"}
    /\ ~mSig
    /\ mSig' = TRUE
    /\ UNCHANGED <<mMode, mPc, mRun, mActive, mToken, mSkipped, mResult, mCtx,
                   mRuns, mExit>>
    /\ UNCHANGED outsideMain

\* runProcessor in runDaemon: the select on the running channel takes the
\* token and starts the goroutine, or, with no token, skips the run.
runProcessorAlways ==
    /\ mRun' = "inflight"
    /\ mActive' = mActive + 1
    /\ mRuns' = mRuns + 1
    /\ mToken' = IF mToken > 0 THEN mToken - 1 ELSE 0
    /\ UNCHANGED mSkipped
runProcessor ==
    IF mToken > 0
    THEN /\ mToken' = mToken - 1
         /\ mRun' = "inflight"
         /\ mActive' = mActive + 1
         /\ mRuns' = mRuns + 1
         /\ UNCHANGED mSkipped
    ELSE /\ mSkipped' = mSkipped + 1
         /\ UNCHANGED <<mRun, mActive, mToken, mRuns>>

\* go func() { ... proc.Run(ctx) ... }() in runOnce; "Run immediately on
\* startup" in runDaemon.
StartRun ==
    /\ mPc = "start"
    /\ IF mMode = "daemon"
       THEN runProcessor
       ELSE /\ mRun' = "inflight"
            /\ mActive' = mActive + 1
            /\ mRuns' = mRuns + 1
            /\ UNCHANGED <<mToken, mSkipped>>
    /\ mPc' = "select"
    /\ UNCHANGED <<mMode, mResult, mCtx, mSig, mExit>>
    /\ UNCHANGED outsideMain

\* proc.Run returns in its goroutine: nil or an error, and after the context
\* was cancelled possibly context.Canceled; the result goes to errChan, or
\* the running token is put back.
RunFinishes ==
    /\ mActive > 0
    /\ mPc # "returned"
    /\ mResult' \in {"nil", "error"} \cup (IF mCtx THEN {"canceled"} ELSE {})
    /\ mActive' = mActive - 1
    /\ mRun' = IF mActive = 1 THEN "returned" ELSE mRun
    /\ mToken' = IF mMode = "daemon" THEN mToken + 1 ELSE mToken
    /\ UNCHANGED <<mMode, mPc, mSkipped, mCtx, mSig, mRuns, mExit>>
    /\ UNCHANGED outsideMain

\* run returns the exit code.
Exit(code) ==
    /\ mPc' = "returned"
    /\ mExit' = code

\* runOnce, case err := <-errChan
OnceCompleted ==
    /\ mMode = "once"
    /\ mPc = "select"
    /\ mRun = "returned"
    /\ Exit(IF mResult = "nil" THEN 0 ELSE 1)
    /\ UNCHANGED <<mMode, mRun, mActive, mToken, mSkipped, mResult, mCtx, mSig, mRuns>>
    /\ UNCHANGED outsideMain

\* runOnce, case sig := <-sigChan: cancel(), then wait on errChan
OnceSignalled ==
    /\ mMode = "once"
    /\ mPc = "select"
    /\ mSig
    /\ mSig' = FALSE
    /\ mCtx' = TRUE
    /\ mPc' = "drain"
    /\ UNCHANGED <<mMode, mRun, mActive, mToken, mSkipped, mResult, mRuns, mExit>>
    /\ UNCHANGED outsideMain

\* runOnce: err := <-errChan after the signal
OnceDrained ==
    /\ mMode = "once"
    /\ mPc = "drain"
    /\ mRun = "returned"
    /\ Exit(IF mResult \in {"nil", "canceled"} THEN 0 ELSE 1)
    /\ UNCHANGED <<mMode, mRun, mActive, mToken, mSkipped, mResult, mCtx, mSig, mRuns>>
    /\ UNCHANGED outsideMain

\* runDaemon, case <-ticker.C: runProcessor starts a run when the running
\* token is there and skips the interval when a run is still in flight.
DaemonTick ==
    /\ mMode = "daemon"
    /\ mPc = "select"
    /\ mRuns + mSkipped < MaxRuns
    /\ runProcessor
    /\ UNCHANGED <<mMode, mPc, mResult, mCtx, mSig, mExit>>
    /\ UNCHANGED outsideMain

\* runDaemon, case sig := <-sigChan: cancel(), time.Sleep(500 ms)
DaemonSignalled ==
    /\ mMode = "daemon"
    /\ mPc = "select"
    /\ mSig
    /\ mSig' = FALSE
    /\ mCtx' = TRUE
    /\ mPc' = "sleep"
    /\ UNCHANGED <<mMode, mRun, mActive, mToken, mSkipped, mResult, mRuns, mExit>>
    /\ UNCHANGED outsideMain

\* runDaemon: the sleep ends, return 0
DaemonSleepEnds ==
    /\ mMode = "daemon"
    /\ mPc = "sleep"
    /\ Exit(0)
    /\ UNCHANGED <<mMode, mRun, mActive, mToken, mSkipped, mResult, mCtx, mSig, mRuns>>
    /\ UNCHANGED outsideMain

MainNext ==
    \/ SignalArrives \/ StartRun \/ RunFinishes
    \/ OnceCompleted \/ OnceSignalled \/ OnceDrained
    \/ DaemonTick \/ DaemonSignalled \/ DaemonSleepEnds

MainSpec == MainInit /\ [][MainNext]_vars

\* C27: in both modes run does not return, and so the lock file is not
\* released and the process does not exit, while a proc.Run call is in
\* flight.
C27_WaitsForRun ==
    mPc = "returned" => mRun # "inflight"

\* C34: in daemon mode at most one Processor.Run is active at any time: a
\* tick that fires while a run is active starts no run and is skipped, not
\* queued (a run that returns starts nothing), and a run starts only when no
\* run is active and the token is back in the channel.
C34_OneRunAtATime ==
    /\ [](mMode = "daemon" => mActive <= 1)
    /\ [][mMode = "daemon"
            => /\ mRuns' > mRuns
                    => /\ mActive = 0
                       /\ mToken = 1
                       /\ mRuns' = mRuns + 1
                       /\ mActive' = 1
               /\ (mActive > 0 /\ mSkipped' # mSkipped)
                    => /\ mSkipped' = mSkipped + 1
                       /\ UNCHANGED <<mRuns, mActive, mToken>>
               /\ mActive' < mActive => UNCHANGED <<mRuns, mSkipped>>
               /\ (mPc = "select" /\ mPc' = "select" /\ UNCHANGED <<mActive, mSig>>)
                    => mSkipped' = mSkipped + 1 /\ mActive = 1]_vars

\* A tick was skipped while a run was active, the run returned, and a later
\* tick started the next run.
C34_Witness ==
    /\ mMode = "daemon"
    /\ mSkipped >= 1
    /\ mRuns >= 2
    /\ mActive = 1
    /\ mToken = 0



(***************************************************************************)
(* Part 9. Single calls of Matcher.MatchTracks, Matcher.calculateBestRatio *)
(* and Filter.FileMatches / Filter.FilterFiles on arguments drawn from     *)
(* small sets.                                                             *)
(***************************************************************************)
MaxTracks == 3

\* The sequences over S of length at most n.
SeqsUpTo(S, n) == UNION {[1..k -> S] : k \in 0..n}

\* Titles and file names that differ in case, in an accent and in a prefix.
TitlePool == { <<"A", "b">>, <<"c", "é">> }
FilenamePool ==
    { <<"a", "b", ".", "f", "l", "a", "c">>,
      <<"0", "1", " ", "-", " ", "c", "e", ".", "m", "p", "3">>,
      <<"z", "z", ".", "f", "l", "a", "c">> }

\* Matcher.MatchTracks: isMatch
MatchTracksAnyTrack(expectedTracks, actualFiles, minRatio) ==
    IF Len(expectedTracks) = 0 \/ Len(actualFiles) = 0 THEN FALSE
    ELSE IF Len(actualFiles) < Len(expectedTracks) THEN FALSE
    ELSE \E k \in 1..Len(expectedTracks) :
            RatioAtLeast(bestRatio(expectedTracks[k], actualFiles), minRatio)
MatchTracks(expectedTracks, actualFiles, minRatio) ==
    IF Len(expectedTracks) = 0 \/ Len(actualFiles) = 0 THEN FALSE
    ELSE IF Len(actualFiles) < Len(expectedTracks) THEN FALSE
    ELSE LET matched == Cardinality({k \in 1..Len(expectedTracks) :
                            RatioAtLeast(bestRatio(expectedTracks[k], actualFiles),
                                         minRatio)})
         IN  matched = Len(expectedTracks)

MatchInit ==
    /\ MonitorIdle
    /\ PhaseIdle
    /\ ReleaseIdle
    /\ QueueIdle
    /\ LockIdle
    /\ DenyIdle
    /\ PageIdle
    /\ MainIdle
    /\ fnPc = "call"
    /\ fnIn \in [expectedTracks : SeqsUpTo(TitlePool, MaxTracks),
                 actualFiles : SeqsUpTo(FilenamePool, MaxTracks),
                 minRatio : {MinimumFilenameMatchRatio, One}]
    /\ fnOut = <<>>

\* isMatch, _ := m.MatchTracks(expectedTracks, actualFiles)
CallMatchTracks ==
    /\ fnPc = "call"
    /\ fnOut' = [isMatch |-> MatchTracks(fnIn.expectedTracks, fnIn.actualFiles,
                                         fnIn.minRatio)]
    /\ fnPc' = "done"
    /\ UNCHANGED fnIn
    /\ UNCHANGED outsideCall

MatchSpec == MatchInit /\ [][CallMatchTracks]_vars

\* The expected tracks for which some candidate file scores at least the
\* threshold.
TracksAtThreshold ==
    {k \in 1..Len(fnIn.expectedTracks) :
        \E j \in 1..Len(fnIn.actualFiles) :
            RatioAtLeast(calculateBestRatio(fnIn.expectedTracks[k],
                                            ExtractFilename(fnIn.actualFiles[j])),
                         fnIn.minRatio)}

\* C28: MatchTracks returns isMatch = true exactly when both lists are not
\* empty, there are at least as many candidate files as expected tracks, and
\* every expected track has a candidate file that scores at least the
\* threshold; so with more expected tracks than files the result is false,
\* and so it is with one track below the threshold.
C28_MatchTracks ==
    fnPc = "done"
        => /\ fnOut.isMatch
                <=> /\ Len(fnIn.expectedTracks) > 0
                    /\ Len(fnIn.actualFiles) > 0
                    /\ Len(fnIn.actualFiles) >= Len(fnIn.expectedTracks)
                    /\ TracksAtThreshold = 1..Len(fnIn.expectedTracks)
           /\ Len(fnIn.actualFiles) < Len(fnIn.expectedTracks) => ~fnOut.isMatch
           /\ TracksAtThreshold # 1..Len(fnIn.expectedTracks) => ~fnOut.isMatch

\* Two expected tracks against three files: one track has a file at the
\* threshold, the other has none, and the result is false.
C28_Witness ==
    /\ fnPc = "done"
    /\ "isMatch" \in DOMAIN fnOut
    /\ ~fnOut.isMatch
    /\ Len(fnIn.expectedTracks) = 2
    /\ Len(fnIn.actualFiles) = 3
    /\ Cardinality(TracksAtThreshold) = 1


MaxChars == 2

\* Strings of letters in both cases, spaces and the separators the
\* truncation splits on, and some longer ones: with a prefix to truncate,
\* with accents, with a letter of two bytes that has no decomposition.
RatioAlphabet == {"a", "A", " ", "-", "_"}
LongStrings ==
    { <<"c", " ", "-", " ", "a">>,
      <<"c", "_", "a", "a">>,
      <<"a", " ", " ", "A", " ">>,
      <<"x", "y", "z">>,
      <<"Á", " ", "ä">>,
      <<"a", "U+0301", "-", "Ø">>,
      <<"a", "U+0301", "U+0327">>,
      <<"ø">> }
RatioStrings == SeqsUpTo(RatioAlphabet, MaxChars) \cup LongStrings

RatioInit ==
    /\ MonitorIdle
    /\ PhaseIdle
    /\ ReleaseIdle
    /\ QueueIdle
    /\ LockIdle
    /\ DenyIdle
    /\ PageIdle
    /\ MainIdle
    /\ fnPc = "call"
    /\ fnIn \in [expected : RatioStrings, actual : RatioStrings]
    /\ fnOut = <<>>

\* m.calculateBestRatio(expected, actual)
CallCalculateBestRatio ==
    /\ fnPc = "call"
    /\ fnOut' = calculateBestRatio(fnIn.expected, fnIn.actual)
    /\ fnPc' = "done"
    /\ UNCHANGED fnIn
    /\ UNCHANGED outsideCall

RatioSpec == RatioInit /\ [][CallCalculateBestRatio]_vars

\* C29: the score calculateBestRatio returns lies in [0, 1]; it is 1 when
\* the two strings are equal after normalization, both empty included, and
\* 0 when exactly one of them is empty after normalization.
C29_ScoreInUnitInterval ==
    fnPc = "done"
        => /\ fnOut.den > 0
           /\ 0 <= fnOut.num
           /\ fnOut.num <= fnOut.den
           /\ preprocess(fnIn.expected) = preprocess(fnIn.actual)
                => fnOut.num = fnOut.den
           /\ (preprocess(fnIn.expected) = <<>>) # (preprocess(fnIn.actual) = <<>>)
                => fnOut.num = 0

\* Two different strings that are equal after normalization score 1.
C29_Witness ==
    /\ fnPc = "done"
    /\ "num" \in DOMAIN fnOut
    /\ fnIn.expected # fnIn.actual
    /\ preprocess(fnIn.expected) = preprocess(fnIn.actual)
    /\ preprocess(fnIn.expected) # <<>>
    /\ fnOut.num = fnOut.den


MaxPatterns == 2
MaxFiles == 2

\* Files with and without quality metadata, with an extension in capitals
\* and with none.
FilterFilePool ==
    { SearchFile(DirA, <<"a">>, Flac, 1, Nil),
      [SearchFile(DirA, <<"b">>, Flac, 2, Nil)
            EXCEPT !.BitDepth = 24, !.SampleRate = 96000],
      [SearchFile(DirA, <<"c">>, <<"F", "L", "A", "C">>, 3, Nil)
            EXCEPT !.BitDepth = 16, !.SampleRate = 44100],
      SearchFile(DirA, <<"d">>, Mp3, 4, 320),
      SearchFile(DirA, <<"e">>, Mp3, 5, 128),
      SearchFile(DirA, <<"f">>, Jpg, 6, Nil),
      [SearchFile(DirA, <<"g">>, Flac, 7, Nil) EXCEPT !.Filename = DirA \o <<"\\", "g">>] }

\* allowed_filetypes entries: a bare extension, extensions with a quality,
\* one written in capitals.
FilterPatternPool ==
    { <<"f", "l", "a", "c">>,
      <<"f", "l", "a", "c", " ", "2", "4", "/", "9", "6">>,
      <<"F", "L", "A", "C", " ", "1", "6", "/", "4", "4", ".", "1">>,
      <<"m", "p", "3", " ", "3", "2", "0">>,
      <<"m", "p", "3">> }

Reverse(s) == [k \in 1..Len(s) |-> s[Len(s) + 1 - k]]

FilterInit ==
    /\ MonitorIdle
    /\ PhaseIdle
    /\ ReleaseIdle
    /\ QueueIdle
    /\ LockIdle
    /\ DenyIdle
    /\ PageIdle
    /\ MainIdle
    /\ fnPc = "call"
    /\ fnIn \in [files : SeqsUpTo(FilterFilePool, MaxFiles),
                 allowedFiletypes : SeqsUpTo(FilterPatternPool, MaxPatterns)]
    /\ fnOut = <<>>

\* f.FileMatches(file) for each file of the list, and f.FilterFiles(files)
CallFilter ==
    /\ fnPc = "call"
    /\ fnOut' = [ matches |-> [k \in 1..Len(fnIn.files)
                                 |-> FileMatches(fnIn.files[k], fnIn.allowedFiletypes)],
                  filtered |-> FilterFiles(fnIn.files, fnIn.allowedFiletypes) ]
    /\ fnPc' = "done"
    /\ UNCHANGED fnIn
    /\ UNCHANGED outsideCall

FilterSpec == FilterInit /\ [][CallFilter]_vars

\* The file matches the pattern: it has an extension and matchesFiletype
\* accepts the extension, in lower case and without its dot.
PatternMatches(file, pattern) ==
    LET ext == ToLower(FilepathExt(file.Filename)) IN
    /\ ext # <<>>
    /\ matchesFiletype(file, Tail(ext), pattern)

\* C30: FileMatches accepts a file iff the policy is empty or the file
\* matches at least one pattern of the policy; the policy in reverse order
\* gives the same answer; with an empty policy every file is accepted and
\* FilterFiles returns its input unchanged.
C30_AnyPatternAccepts ==
    fnPc = "done"
        => /\ \A k \in 1..Len(fnIn.files) :
                /\ fnOut.matches[k]
                     <=> \/ fnIn.allowedFiletypes = <<>>
                         \/ \E j \in 1..Len(fnIn.allowedFiletypes) :
                               PatternMatches(fnIn.files[k], fnIn.allowedFiletypes[j])
                /\ FileMatches(fnIn.files[k], Reverse(fnIn.allowedFiletypes))
                     = fnOut.matches[k]
           /\ fnIn.allowedFiletypes = <<>>
                => /\ fnOut.filtered = fnIn.files
                   /\ \A k \in 1..Len(fnIn.files) : fnOut.matches[k]

\* A file accepted by the second pattern of a policy whose first pattern
\* rejects it, next to a file the policy rejects.
C30_Witness ==
    /\ fnPc = "done"
    /\ "matches" \in DOMAIN fnOut
    /\ Len(fnIn.allowedFiletypes) = 2
    /\ Len(fnIn.files) = 2
    /\ ~PatternMatches(fnIn.files[1], fnIn.allowedFiletypes[1])
    /\ PatternMatches(fnIn.files[1], fnIn.allowedFiletypes[2])
    /\ fnOut.matches[1]
    /\ ~fnOut.matches[2]
    /\ fnOut.filtered = <<fnIn.files[1]>>


Ogg == <<"o", "g", "g">>

\* A search file with all its quality metadata given; Nil for an absent field.
QualityFile(ext, bitRate, bitDepth, sampleRate) ==
    [SearchFile(DirA, <<"t">>, ext, 1, bitRate)
        EXCEPT !.BitDepth = bitDepth, !.SampleRate = sampleRate]

\* Files with present, absent, partial and zero metadata.
TypeFilePool ==
    { QualityFile(Flac, Nil, Nil, Nil),
      QualityFile(Flac, Nil, 24, Nil),
      QualityFile(Flac, Nil, Nil, 96000),
      QualityFile(Flac, Nil, 24, 96000),
      QualityFile(Flac, Nil, 24, 48000),
      QualityFile(Flac, Nil, 16, 44100),
      QualityFile(Flac, Nil, 24, 64100),
      QualityFile(Flac, Nil, 24, 64099),
      QualityFile(Flac, Nil, 24, 2010),
      QualityFile(Flac, 320, 0, 0),
      QualityFile(Mp3, Nil, Nil, Nil),
      QualityFile(Mp3, 320, Nil, Nil),
      QualityFile(Mp3, 128, 24, 96000),
      QualityFile(Mp3, 0, Nil, Nil),
      QualityFile(Ogg, 320, 24, 96000),
      QualityFile(Ogg, 0, 0, 0) }

\* Patterns of every shape matchesFiletype tells apart, well formed and not;
\* rates in every syntax strconv.ParseFloat reads: decimal, with an exponent,
\* with underscores, hexadecimal.
TypePatternPool ==
    { <<"f", "l", "a", "c">>,
      <<"m", "p", "3">>,
      <<"f", "l", "a", "c", " ", "2", "4", "/", "9", "6">>,
      <<"F", "L", "A", "C", " ", "1", "6", "/", "4", "4", ".", "1">>,
      <<"f", "l", "a", "c", " ", "2", "4", "/", "6", "4", ".", "1">>,
      <<"f", "l", "a", "c", " ", "2", "4", "/", "2", ".", "0", "1">>,
      <<"f", "l", "a", "c", " ", "2", "4", "/", "0", "x", "1", ".", "8", "p", "5">>,
      <<"f", "l", "a", "c", " ", "2", "4", "/", "4", "_", "8", ".", "0">>,
      <<"F", "L", "A", "C", " ", "2", "4", "/", "9", ".", "6", "E", "1">>,
      <<"f", "l", "a", "c", " ", "2", "4", "/", "0", "x", "1", ".", "8">>,
      <<"f", "l", "a", "c", " ", "2", "4", "/", "4", "_", "_", "8", ".", "0">>,
      <<"m", "p", "3", " ", "3", "2", "0">>,
      <<>>,
      <<" ">>,
      <<"f", "l", "a", "c", " ", "2", "4", "/", "9", "6", " ", "x">>,
      <<"m", "p", "3", " ", "3", "2", "0", " ", "x">>,
      <<"o", "g", "g", " ", "3", "2", "0">>,
      <<"f", "l", "a", "c", " ", "2", "4">>,
      <<"f", "l", "a", "c", " ", "x", "/", "9", "6">>,
      <<"f", "l", "a", "c", " ", "2", "4", "/", "x">>,
      <<"f", "l", "a", "c", " ", "2", "4", "/", "9", "6", "/", "1">>,
      <<"f", "l", "a", "c", " ", "/">>,
      <<"f", "l", "a", "c", " ", "2", "4", "/", "1", ".", "2", ".", "3">>,
      <<"m", "p", "3", " ", "a", "b", "c">>,
      <<"m", "p", "3", " ", "3", "2", ".", "0">>,
      <<"m", "p", "3", " ", "2", "4", "/", "9", "6">>,
      <<"o", "g", "g">> }

TypeInit ==
    /\ MonitorIdle
    /\ PhaseIdle
    /\ ReleaseIdle
    /\ QueueIdle
    /\ LockIdle
    /\ DenyIdle
    /\ PageIdle
    /\ MainIdle
    /\ fnPc = "call"
    /\ fnIn \in [file : TypeFilePool, pattern : TypePatternPool]
    /\ fnOut = <<>>

\* f.matchesFiletype(file, ext, allowedType) as FileMatches calls it, with
\* the file's extension in lower case and without its dot
CallMatchesFiletype ==
    /\ fnPc = "call"
    /\ fnOut' = [ ext |-> Tail(ToLower(FilepathExt(fnIn.file.Filename))),
                  matches |-> matchesFiletype(
                                  fnIn.file,
                                  Tail(ToLower(FilepathExt(fnIn.file.Filename))),
                                  fnIn.pattern) ]
    /\ fnPc' = "done"
    /\ UNCHANGED fnIn
    /\ UNCHANGED outsideCall

TypeSpec == TypeInit /\ [][CallMatchesFiletype]_vars

\* The tokens of a pattern, and the shapes the patterns are documented in.
TokensOf(pattern) == Fields(ToLower(pattern))
IsNumber(token) ==
    IF Contains(token, <<".">>) THEN ParseFloat(token).ok ELSE Atoi(token).ok
IsFlacQuality(pattern) ==
    /\ Len(TokensOf(pattern)) = 2
    /\ TokensOf(pattern)[1] = Flac
    /\ Len(Split(TokensOf(pattern)[2], "/")) = 2
    /\ Atoi(Split(TokensOf(pattern)[2], "/")[1]).ok
    /\ IsNumber(Split(TokensOf(pattern)[2], "/")[2])
IsMp3Quality(pattern) ==
    /\ Len(TokensOf(pattern)) = 2
    /\ TokensOf(pattern)[1] = Mp3
    /\ Atoi(TokensOf(pattern)[2]).ok
WantedDepth(pattern) == Atoi(Split(TokensOf(pattern)[2], "/")[1]).value
WantedRateToken(pattern) == Split(TokensOf(pattern)[2], "/")[2]

\* hz is the rate the token gives in kHz, times 1000, in exact arithmetic.
IsKHzTimes1000(hz, token) ==
    IF Contains(token, <<".">>)
    THEN LET f == ParseFloat(token) IN
         hz * f.den = (IF f.neg THEN 0 - 1000 * f.num ELSE 1000 * f.num)
    ELSE hz = 1000 * Atoi(token).value

\* C31: absent metadata is never a wildcard. A flac file lacking bit depth or
\* sample rate matches no pattern "flac <depth>/<rate>", an mp3 file lacking
\* bit rate matches no pattern "mp3 <bitrate>", both match their bare
\* extension; with the metadata present the file matches exactly when its
\* values equal the pattern's, the rate in kHz times 1000.
C31_AbsentMetadataRejected ==
    fnPc = "done"
        => LET file == fnIn.file
               pattern == fnIn.pattern
           IN  /\ TokensOf(pattern) = <<fnOut.ext>> => fnOut.matches
               /\ (IsFlacQuality(pattern) /\ fnOut.ext = Flac)
                    => IF file.BitDepth = Nil \/ file.SampleRate = Nil
                       THEN ~fnOut.matches
                       ELSE fnOut.matches
                              <=> /\ file.BitDepth = WantedDepth(pattern)
                                  /\ IsKHzTimes1000(file.SampleRate,
                                                    WantedRateToken(pattern))
               /\ (IsMp3Quality(pattern) /\ fnOut.ext = Mp3)
                    => IF file.BitRate = Nil
                       THEN ~fnOut.matches
                       ELSE fnOut.matches
                              <=> file.BitRate = Atoi(TokensOf(pattern)[2]).value


\* The pattern has none of the documented shapes: it is empty, has more than
\* two tokens, or has a quality token that its extension does not take.
IsMalformed(pattern) ==
    \/ Len(TokensOf(pattern)) = 0
    \/ Len(TokensOf(pattern)) > 2
    \/ /\ Len(TokensOf(pattern)) = 2
       /\ \/ TokensOf(pattern)[1] \notin {Flac, Mp3}
          \/ TokensOf(pattern)[1] = Flac /\ ~IsFlacQuality(pattern)
          \/ TokensOf(pattern)[1] = Mp3 /\ ~IsMp3Quality(pattern)

\* C32: the quality filter fails closed: a malformed pattern matches no
\* file, whatever the file's extension and metadata.
C32_MalformedPatternRejects ==
    fnPc = "done" => (IsMalformed(fnIn.pattern) => ~fnOut.matches)

\* A malformed pattern whose first token is the file's extension was
\* rejected for a file that carries all its metadata.
C32_Witness ==
    /\ fnPc = "done"
    /\ "matches" \in DOMAIN fnOut
    /\ IsMalformed(fnIn.pattern)
    /\ Len(TokensOf(fnIn.pattern)) >= 2
    /\ TokensOf(fnIn.pattern)[1] = fnOut.ext
    /\ fnIn.file.BitRate # Nil
    /\ fnIn.file.BitDepth # Nil
    /\ fnIn.file.SampleRate # Nil
    /\ ~fnOut.matches


MaxStateFiles == 2

\* Transfer states slskd reports, and strings next to them: empty, shorter
\* than "Completed", another case, a trailing space, an unknown completion.
StatePool ==
    { StSucceeded, StCancelled, StTimedOut, StErrored, StRejected,
      StDownloading, StQueued, StRequested,
      <<>>,
      <<"C", "o", "m", "p", "l", "e", "t", "e", "d">>,
      <<"C", "o", "m", "p", "l", "e", "t", "e">>,
      <<"c", "o", "m", "p", "l", "e", "t", "e", "d", ",", " ", "s", "u", "c", "c", "e", "e", "d", "e", "d">>,
      <<"C", "o", "m", "p", "l", "e", "t", "e", "d", ",", " ", "C", "a", "n", "c", "e", "l", "l", "e", "d", " ">>,
      <<"C", "o", "m", "p", "l", "e", "t", "e", "d", "X">>,
      <<"C", "o", "m", "p", "l", "e", "t", "e", "d", ",", " ", "A", "b", "o", "r", "t", "e", "d">>,
      <<"C", "o", "m", "p", "l", "e", "t", "e", "d", ",", " ", "E", "r", "r", "o", "r", "e", "d", ",", " ", "R", "e", "j", "e", "c", "t", "e", "d">>,
      <<" ", "C", "o", "m", "p", "l", "e", "t", "e", "d", ",", " ", "E", "r", "r", "o", "r", "e", "d">>,
      <<"I", "n", "i", "t", "i", "a", "l", "i", "z", "i", "n", "g">> }

StateInit ==
    /\ MonitorIdle
    /\ PhaseIdle
    /\ ReleaseIdle
    /\ QueueIdle
    /\ LockIdle
    /\ DenyIdle
    /\ PageIdle
    /\ MainIdle
    /\ fnPc = "call"
    /\ fnIn \in [states : SeqsUpTo(StatePool, MaxStateFiles)]
    /\ fnOut = <<>>

\* The files of a directory listing with the given states
StateFiles(states) ==
    [k \in 1..Len(states) |->
        [ID |-> k, Filename |-> <<"f">>, State |-> states[k], Size |-> k]]

\* "Separate files into completed, in-progress, and errored", and the three
\* predicates of DownloadFile on each file
CallClassify ==
    /\ fnPc = "call"
    /\ LET dirFiles == StateFiles(fnIn.states) IN
       fnOut' = [ dirFiles |-> dirFiles,
                  errored |-> erroredFiles(dirFiles),
                  completed |-> completedFiles(dirFiles),
                  inProgress |-> inProgressFiles(dirFiles),
                  IsCompleted |-> [k \in 1..Len(dirFiles) |-> IsCompleted(dirFiles[k])],
                  IsErrored |-> [k \in 1..Len(dirFiles) |-> IsErrored(dirFiles[k])],
                  IsInProgress |-> [k \in 1..Len(dirFiles) |-> IsInProgress(dirFiles[k])] ]
    /\ fnPc' = "done"
    /\ UNCHANGED fnIn
    /\ UNCHANGED outsideCall

StateSpec == StateInit /\ [][CallClassify]_vars

\* The number of entries of a list that are the file f.
TimesIn(list, f) == Cardinality({k \in 1..Len(list) : list[k] = f})

\* C33: every file is placed in exactly one of errored, completed and
\* in-progress: errored iff its state is one of the four error states,
\* completed iff the state starts with "Completed" and is not errored,
\* in-progress otherwise; IsInProgress is the negation of IsCompleted and
\* IsErrored implies IsCompleted.
C33_StatesPartitioned ==
    fnPc = "done"
        => \A k \in 1..Len(fnOut.dirFiles) :
             LET f == fnOut.dirFiles[k]
                 isError == f.State \in {StCancelled, StTimedOut, StErrored, StRejected}
                 isDone == HasPrefix(f.State, Completed)
             IN  /\ TimesIn(fnOut.errored, f) + TimesIn(fnOut.completed, f)
                        + TimesIn(fnOut.inProgress, f) = 1
                 /\ TimesIn(fnOut.errored, f) = 1 <=> isError
                 /\ TimesIn(fnOut.completed, f) = 1 <=> (isDone /\ ~isError)
                 /\ TimesIn(fnOut.inProgress, f) = 1 <=> (~isDone /\ ~isError)
                 /\ fnOut.IsInProgress[k] = ~fnOut.IsCompleted[k]
                 /\ fnOut.IsErrored[k] => fnOut.IsCompleted[k]

\* A listing with an errored file and a file whose state starts with
\* "Completed" and is neither an error state nor "Completed, Succeeded".
C33_Witness ==
    /\ fnPc = "done"
    /\ "errored" \in DOMAIN fnOut
    /\ Len(fnOut.errored) = 1
    /\ Len(fnOut.completed) = 1
    /\ fnOut.completed[1].State # StSucceeded
    /\ fnOut.inProgress = <<>>


(***************************************************************************)
(* Processor.Run, phases 3 to 5: monitor, organize, import                 *)
(***************************************************************************)
\* Run has called monitorDownloads with the list searchAndQueueDownloads
\* returned, which is not empty.
PhasesInit ==
    /\ downloadList \in {SubSeq(ItemCatalog, 1, n) : n \in 1..MaxItems}
    /\ pc = "tick"
    /\ idx = 1
    /\ pending = [i \in 1..Len(downloadList) |-> TRUE]
    /\ succeeded = [i \in 1..Len(downloadList) |-> FALSE]
    /\ retryCount = [i \in 1..Len(downloadList) |-> 0]
    /\ unfinished = 0
    /\ elapsed = 0
    /\ ctxDone = FALSE
    /\ result = <<>>
    /\ err = "nil"
    /\ last = NoStep
    /\ ReleaseIdle
    /\ QueueIdle
    /\ LockIdle
    /\ DenyIdle
    /\ PageIdle
    /\ MainIdle
    /\ CallIdle
    /\ phPc = "monitor"
    /\ phDisableSync \in BOOLEAN
    /\ phCalls = <<>>
    /\ phErr = "none"

\* successfulDownloads, err := p.monitorDownloads(ctx, downloadList)
MonitorReturned ==
    /\ phPc = "monitor"
    /\ pc = "done"
    /\ IF err # "nil"
       THEN phPc' = "returned" /\ phErr' = "monitor downloads"
       ELSE phPc' = "organize" /\ UNCHANGED phErr
    /\ UNCHANGED <<phDisableSync, phCalls>>
    /\ UNCHANGED monitorVars
    /\ UNCHANGED outsidePhase

\* p.organizeDownloads(successfulDownloads): with an empty list it returns
\* nil at once, otherwise OrganizeAlbums succeeds or fails.
OrganizeDownloads ==
    /\ phPc = "organize"
    /\ \E ok \in (IF result = <<>> THEN {TRUE} ELSE BOOLEAN) :
         /\ phCalls' = Append(phCalls, [fn |-> "organizeDownloads",
                                        items |-> result, ok |-> ok])
         /\ IF ok
            THEN phPc' = "import" /\ UNCHANGED phErr
            ELSE phPc' = "returned" /\ phErr' = "organize downloads"
    /\ UNCHANGED phDisableSync
    /\ UNCHANGED monitorVars
    /\ UNCHANGED outsidePhase

\* if !p.cfg.Lidarr.DisableSync { p.triggerImport(ctx, successfulDownloads) },
\* which returns nil; then the state is saved and Run returns nil.
TriggerImportIgnoresSync ==
    /\ phPc = "import"
    /\ phCalls' = Append(phCalls, [fn |-> "triggerImport", items |-> result,
                                   ok |-> TRUE])
    /\ phPc' = "returned"
    /\ phErr' = "nil"
    /\ UNCHANGED phDisableSync
    /\ UNCHANGED monitorVars
    /\ UNCHANGED outsidePhase
TriggerImport ==
    /\ phPc = "import"
    /\ phCalls' = IF phDisableSync THEN phCalls
                  ELSE Append(phCalls, [fn |-> "triggerImport", items |-> result,
                                        ok |-> TRUE])
    /\ phPc' = "returned"
    /\ phErr' = "nil"
    /\ UNCHANGED phDisableSync
    /\ UNCHANGED monitorVars
    /\ UNCHANGED outsidePhase

PhasesNext == Next \/ MonitorReturned \/ OrganizeDownloads \/ TriggerImport

PhasesSpec == PhasesInit /\ [][PhasesNext]_vars

\* The calls made so far of one of the two functions.
CallsOf(fn) == SelectSeq(phCalls, LAMBDA c : c.fn = fn)

\* C37: organizeDownloads and triggerImport are given only items that
\* monitorDownloads returned as succeeded, never one that was dropped, that
\* failed or that was still pending at the timeout; organizing starts only
\* after monitoring has returned without error, import is triggered only
\* after organizing returned without error, and never with disable_sync.
C37_OnlySucceededOrganized ==
    /\ \A k \in 1..Len(phCalls) :
         /\ pc = "done" /\ err = "nil"
         /\ phCalls[k].items = result
         /\ \A j \in 1..Len(phCalls[k].items) :
              /\ succeeded[phCalls[k].items[j]]
              /\ ~pending[phCalls[k].items[j]]
    /\ \A i \in Items :
         (~succeeded[i] /\ phCalls # <<>>)
            => \A k \in 1..Len(phCalls) : i \notin Range(phCalls[k].items)
    /\ Len(CallsOf("organizeDownloads")) <= 1
    /\ Len(CallsOf("triggerImport")) <= 1
    /\ CallsOf("triggerImport") # <<>>
         => /\ ~phDisableSync
            /\ Len(phCalls) = 2
            /\ phCalls[1].fn = "organizeDownloads"
            /\ phCalls[1].ok
            /\ phCalls[2].fn = "triggerImport"

\* Of two items one succeeded and one did not; the one that succeeded was
\* organized and imported.
C37_Witness ==
    /\ phPc = "returned"
    /\ Len(downloadList) = 2
    /\ Len(phCalls) = 2
    /\ Len(phCalls[2].items) = 1
    /\ \E i \in Items : ~succeeded[i]

====
